---- MODULE Spec2Model ----
(***************************************************************************)
(* Model of the SJUAnalytics report engine: the two provider clients'      *)
(* TTL caches (kenpom_client.py, espn_client.py) and the report engine     *)
(* (report_engine.py): safe coercion, row lookup, metric normalisation,    *)
(* the callout engine and the provider fetch sequence of a report build.   *)
(*                                                                         *)
(* Numbers: the code's floats are modelled as integers in hundredths      *)
(* (72.5 is 7250, 0.40 is 40); ranks and times are plain integers.         *)
(***************************************************************************)
EXTENDS Integers, Sequences, FiniteSets, TLC

VARIABLES
    cache,      \* the module-level _cache dicts: cache id -> entry
    now,        \* time.time(), in ticks
    last,       \* what the last cache operation did (observation record)
    feed,       \* what each provider method does when called: raise, or a DataFrame
    archive,    \* what get_archive does for each snapshot day
    req,        \* the arguments of the report call (team names, days into the season)
    result,     \* what the last report-generation call did: raised or returned
    raw,        \* a provider cell handed to the coercion helpers
    coerced     \* what the last coercion call did

cacheVars == <<cache, now, last>>
reportVars == <<feed, archive, req, result>>
coerceVars == <<raw, coerced>>
vars == <<cacheVars, reportVars, coerceVars>>

----------------------------------------------------------------------------
(* Bounds of the model                                                     *)

MaxTime == 4
MaxValue == 2
TtlShort == 2
TtlLong == 3
MaxDelta == 2

----------------------------------------------------------------------------
(* TTL cache: kenpom_client._cache / espn_client._cache                    *)

\* A cache id is <<module, key>>: each client module owns one _cache dict.
CacheIds == { <<"kenpom", "ratings">>, <<"kenpom", "teams">>, <<"espn", "boxscore">> }
Modules == { id[1] : id \in CacheIds }

\* The ttl each cached method passes for its key (short-lived vs season data).
TtlOf(id) == IF id[2] = "teams" THEN TtlLong ELSE TtlShort

Values == 1..MaxValue
FetchFails == 0                       \* fetch_fn() raised
Outcomes == Values \cup {FetchFails}

NoEntry == [present |-> FALSE, data |-> 0, ts |-> 0]
Entry(d, t) == [present |-> TRUE, data |-> d, ts |-> t]

\* the mutated freshness test: an entry aged exactly ttl is still served
FreshInclusive(t, ts, ttl) == t - ts <= ttl

\* the mutated freshness test: the window is one tick too short
FreshShort(t, ts, ttl) == t - ts < ttl - 1

\* `now - ts < ttl`
Fresh(t, ts, ttl) == t - ts < ttl

\* `if cache_key in _cache: data, ts = _cache[cache_key]; if now - ts < ttl`
IsHit(c, id, t) == c[id].present /\ Fresh(t, c[id].ts, TtlOf(id))

\* last: op, cache id, call time, the entry found, number of fetch_fn() calls,
\* what fetch_fn() produced, whether the call raised, and the value returned.
NoOp == [op |-> "none", id |-> <<"", "">>, t |-> 0, prev |-> NoEntry,
         fetches |-> 0, fetched |-> 0, raised |-> FALSE, ret |-> 0]

InitCache ==
    /\ cache = [id \in CacheIds |-> NoEntry]
    /\ now = 0
    /\ last = NoOp

\* a _ttl_get that drops the key's entry when fetch_fn() raises
TtlGetEvictsOnFailure(id, outcome) ==
    IF IsHit(cache, id, now)
    THEN /\ last' = [op |-> "get", id |-> id, t |-> now, prev |-> cache[id],
                     fetches |-> 0, fetched |-> 0, raised |-> FALSE,
                     ret |-> cache[id].data]
         /\ UNCHANGED cache
    ELSE IF outcome = FetchFails
    THEN /\ last' = [op |-> "get", id |-> id, t |-> now, prev |-> cache[id],
                     fetches |-> 1, fetched |-> outcome, raised |-> TRUE,
                     ret |-> 0]
         /\ cache' = [cache EXCEPT ![id] = NoEntry]
    ELSE /\ cache' = [cache EXCEPT ![id] = Entry(outcome, now)]
         /\ last' = [op |-> "get", id |-> id, t |-> now, prev |-> cache[id],
                     fetches |-> 1, fetched |-> outcome, raised |-> FALSE,
                     ret |-> outcome]

\* the body of _ttl_get: what it does to _cache, and what the caller sees
TtlGetBody(id, outcome) ==
    IF IsHit(cache, id, now)
    THEN /\ last' = [op |-> "get", id |-> id, t |-> now, prev |-> cache[id],
                     fetches |-> 0, fetched |-> 0, raised |-> FALSE,
                     ret |-> cache[id].data]
         /\ UNCHANGED cache
    ELSE IF outcome = FetchFails
    THEN /\ last' = [op |-> "get", id |-> id, t |-> now, prev |-> cache[id],
                     fetches |-> 1, fetched |-> outcome, raised |-> TRUE,
                     ret |-> 0]
         /\ UNCHANGED cache
    ELSE /\ cache' = [cache EXCEPT ![id] = Entry(outcome, now)]
         /\ last' = [op |-> "get", id |-> id, t |-> now, prev |-> cache[id],
                     fetches |-> 1, fetched |-> outcome, raised |-> FALSE,
                     ret |-> outcome]

\* _ttl_get(key, fetch_fn, ttl): outcome is what fetch_fn() would do if called.
TtlGet(id, outcome) ==
    /\ TtlGetBody(id, outcome)
    /\ UNCHANGED <<now, reportVars, coerceVars>>

\* a clear_cache that empties the dicts of both client modules
ClearCacheEveryModule(m) ==
    /\ cache' = [id \in CacheIds |-> NoEntry]
    /\ last' = [NoOp EXCEPT !.op = "clear", !.id = <<m, "">>, !.t = now]
    /\ UNCHANGED <<now, reportVars, coerceVars>>

\* clear_cache(): _cache.clear() of one module
ClearCache(m) ==
    /\ cache' = [id \in CacheIds |-> IF id[1] = m THEN NoEntry ELSE cache[id]]
    /\ last' = [NoOp EXCEPT !.op = "clear", !.id = <<m, "">>, !.t = now]
    /\ UNCHANGED <<now, reportVars, coerceVars>>

\* the wall clock advances between calls
Tick ==
    /\ now < MaxTime
    /\ now' = now + 1
    /\ last' = [NoOp EXCEPT !.op = "tick", !.t = now + 1]
    /\ UNCHANGED <<cache, reportVars, coerceVars>>

\* no report call and no coercion call under way
NoResult == [op |-> "none", exc |-> "none", stage |-> "none", report |-> <<>>]
NoCoercion == [fn |-> "none", out |-> [exc |-> "none", val |-> 0]]
IdleReport ==
    /\ feed = <<>>
    /\ archive = <<>>
    /\ req = <<>>
    /\ result = NoResult
IdleCoerce ==
    /\ raw = [kind |-> "none", n |-> 0, s |-> <<>>]
    /\ coerced = NoCoercion

Init == InitCache /\ IdleReport /\ IdleCoerce

Next ==
    \/ \E id \in CacheIds, o \in Outcomes : TtlGet(id, o)
    \/ \E m \in Modules : ClearCache(m)
    \/ Tick

Spec == Init /\ [][Next]_vars

----------------------------------------------------------------------------
(* Python values and builtins used by the report engine                    *)

\* n in hundredths: H(3) is the float 3.0
H(n) == n * 100

\* Strings are sequences of characters, so that lower() and `in` are computed.
LowerChar(c) ==
    CASE c = "D" -> "d"
      [] c = "K" -> "k"
      [] c = "U" -> "u"
      [] c = "N" -> "n"
      [] c = "C" -> "c"
      [] c = "A" -> "a"
      [] OTHER -> c

\* str.lower()
PyLower(s) == [i \in 1..Len(s) |-> LowerChar(s[i])]

\* `needle in hay` on strings
PyIn(needle, hay) ==
    \E i \in 0..(Len(hay) - Len(needle)) :
        \A j \in 1..Len(needle) : hay[i + j] = needle[j]

\* A float: NaN or a number (in hundredths)
Fl(n) == [nan |-> FALSE, n |-> n]
FNaN == [nan |-> TRUE, n |-> 0]

\* Cell values as the providers' JSON and pandas deliver them
Num(n) == [kind |-> "num", n |-> n, s |-> <<>>]         \* int or float
NumStr(n) == [kind |-> "numstr", n |-> n, s |-> <<>>]   \* "12.5"
Str(s) == [kind |-> "str", n |-> 0, s |-> s]            \* non-numeric text
None == [kind |-> "none", n |-> 0, s |-> <<>>]          \* JSON null
NaNCell == [kind |-> "nan", n |-> 0, s |-> <<>>]        \* float('nan'): pandas' missing cell
Container == [kind |-> "container", n |-> 0, s |-> <<>>] \* list / dict
BigInt == [kind |-> "bigint", n |-> 0, s |-> <<>>]      \* an int beyond the float range

Ok(v) == [exc |-> "none", val |-> v]
Raise(e) == [exc |-> e, val |-> Fl(0)]

\* float(val)
PyFloat(v) ==
    CASE v.kind = "num" -> Ok(Fl(v.n))
      [] v.kind = "numstr" -> Ok(Fl(v.n))
      [] v.kind = "nan" -> Ok(FNaN)
      [] v.kind = "str" -> Raise("ValueError")
      [] v.kind = "none" -> Raise("TypeError")
      [] v.kind = "container" -> Raise("TypeError")
      [] v.kind = "bigint" -> Raise("OverflowError")

\* _safe_float(val): try float(val) except (TypeError, ValueError): 0.0
SafeFloat(v) ==
    LET r == PyFloat(v)
    IN  IF r.exc \in {"TypeError", "ValueError"} THEN Ok(Fl(0)) ELSE r

\* int(x) of a float: truncation toward zero; int(nan) raises ValueError
PyInt(f) ==
    IF f.nan THEN [exc |-> "ValueError", val |-> 0]
    ELSE [exc |-> "none",
          val |-> IF f.n >= 0 THEN f.n \div 100 ELSE -((-f.n) \div 100)]

\* format(x, ".0f"): round half to even; nan prints as "nan"
Fmt0(f) ==
    IF f.nan THEN <<"n", "a", "n">>
    ELSE LET q == f.n \div 100
             r == f.n % 100
         IN  <<IF r < 50 THEN q
               ELSE IF r > 50 THEN q + 1
               ELSE IF q % 2 = 0 THEN q ELSE q + 1>>

\* str(x)
PyStr(v) ==
    CASE v.kind = "str" -> v.s
      [] v.kind = "none" -> <<"N", "o", "n", "e">>
      [] v.kind = "nan" -> <<"n", "a", "n">>
      [] OTHER -> <<"#">>

\* pandas.Series: a function from index labels to cells; Series.get(key, default)
EmptySeries == [c \in {} |-> None]
SeriesGet(r, key, default) == IF key \in DOMAIN r THEN r[key] ELSE default

\* pandas.DataFrame: its columns and its rows (each a function on the columns)
DataFrame(cols, rows) == [cols |-> cols, rows |-> rows]
EmptyFrame == DataFrame({}, <<>>)                        \* pd.DataFrame()
FrameEmpty(df) == df.cols = {} \/ Len(df.rows) = 0       \* df.empty

\* _row(df, col, val): first row where str(df[col]).lower() == str(val).lower(),
\* else an empty Series; df[col] raises KeyError when the column is absent
Row(df, col, val) ==
    IF col \notin df.cols THEN [exc |-> "KeyError", row |-> EmptySeries]
    ELSE LET hits == {i \in 1..Len(df.rows) :
                         PyLower(PyStr(df.rows[i][col])) = PyLower(val)}
         IN  IF hits # {}
             THEN [exc |-> "none", row |-> df.rows[CHOOSE i \in hits : \A j \in hits : i <= j]]
             ELSE [exc |-> "none", row |-> EmptySeries]

\* int(_safe_float(row.get(field, 999)))
RankCoerce(r, field) ==
    LET sf == SafeFloat(SeriesGet(r, field, Num(H(999))))
    IN  IF sf.exc # "none" THEN [exc |-> sf.exc, val |-> 0] ELSE PyInt(sf.val)

\* _safe_float(row.get(field))
FloatField(r, field) == SafeFloat(SeriesGet(r, field, None))

----------------------------------------------------------------------------
(* Metric normalisation: the record builders of generate_scout_report      *)

\* first exception in evaluation order, "none" when every step succeeded
FirstExc(results) ==
    LET bad == {i \in 1..Len(results) : results[i].exc # "none"}
    IN  IF bad = {} THEN "none"
        ELSE results[CHOOSE i \in bad : \A j \in bad : i <= j].exc

\* One dict entry per line of the source, in source order:
\* <<record key, row it is read from, provider column, "f" float | "r" rank>>
OverviewFields == <<
    <<"adj_em", "ratings", "AdjEM", "f">>,
    <<"rank_em", "ratings", "RankAdjEM", "r">>,
    <<"adj_oe", "ratings", "AdjOE", "f">>,
    <<"rank_oe", "ratings", "RankAdjOE", "r">>,
    <<"adj_de", "ratings", "AdjDE", "f">>,
    <<"rank_de", "ratings", "RankAdjDE", "r">>,
    <<"tempo", "ratings", "AdjTempo", "f">>,
    <<"rank_tempo", "ratings", "RankAdjTempo", "r">>,
    <<"luck", "ratings", "Luck", "f">>,
    <<"sos", "ratings", "SOS", "f">>,
    <<"rank_sos", "ratings", "RankSOS", "r">> >>

FFFields == <<
    <<"efg_pct", "ff", "eFG_Pct", "f">>,
    <<"rank_efg", "ff", "RankeFG_Pct", "r">>,
    <<"to_pct", "ff", "TO_Pct", "f">>,
    <<"rank_to", "ff", "RankTO_Pct", "r">>,
    <<"or_pct", "ff", "OR_Pct", "f">>,
    <<"rank_or", "ff", "RankOR_Pct", "r">>,
    <<"ft_rate", "ff", "FT_Rate", "f">>,
    <<"rank_ft", "ff", "RankFT_Rate", "r">>,
    <<"d_efg", "ff", "DeFG_Pct", "f">>,
    <<"rank_defg", "ff", "RankDeFG_Pct", "r">>,
    <<"d_to", "ff", "DTO_Pct", "f">>,
    <<"rank_dto", "ff", "RankDTO_Pct", "r">>,
    <<"d_or", "ff", "DOR_Pct", "f">>,
    <<"rank_dor", "ff", "RankDOR_Pct", "r">>,
    <<"d_ft", "ff", "DFT_Rate", "f">>,
    <<"rank_dft", "ff", "RankDFT_Rate", "r">> >>

ShootingFields == <<
    <<"fg3_pct", "misc", "FG3Pct", "f">>,
    <<"rank_fg3", "misc", "RankFG3Pct", "r">>,
    <<"fg2_pct", "misc", "FG2Pct", "f">>,
    <<"rank_fg2", "misc", "RankFG2Pct", "r">>,
    <<"ft_pct", "misc", "FTPct", "f">>,
    <<"rank_ft", "misc", "RankFTPct", "r">>,
    <<"block_pct", "misc", "BlockPct", "f">>,
    <<"rank_block", "misc", "RankBlockPct", "r">>,
    <<"steal_rate", "misc", "StlRate", "f">>,
    <<"rank_steal", "misc", "RankStlRate", "r">>,
    <<"assist_rate", "misc", "ARate", "f">>,
    <<"rank_assist", "misc", "RankARate", "r">>,
    <<"f3g_rate", "misc", "F3GRate", "f">>,
    <<"rank_f3g", "misc", "RankF3GRate", "r">>,
    <<"avg2_dist", "misc", "Avg2PADist", "f">>,
    <<"pct_from_3", "pointdist", "OffFg3", "f">>,
    <<"pct_from_2", "pointdist", "OffFg2", "f">>,
    <<"pct_from_ft", "pointdist", "OffFt", "f">> >>

HeightFields == <<
    <<"avg_hgt", "height", "AvgHgt", "f">>,
    <<"rank_hgt", "height", "AvgHgtRank", "r">>,
    <<"hgt_eff", "height", "HgtEff", "f">>,
    <<"rank_heff", "height", "HgtEffRank", "r">>,
    <<"experience", "height", "Exp", "f">>,
    <<"rank_exp", "height", "ExpRank", "r">>,
    <<"bench", "height", "Bench", "f">>,
    <<"rank_bench", "height", "BenchRank", "r">>,
    <<"continuity", "height", "Continuity", "f">> >>

\* the coercion of each entry of a field table, in order; d maps row names to rows
BuildFields(d, fields) ==
    [i \in 1..Len(fields) |->
        IF fields[i][4] = "r"
        THEN RankCoerce(d[fields[i][2]], fields[i][3])
        ELSE FloatField(d[fields[i][2]], fields[i][3])]

\* the dict built from the coerced entries
RecordOf(fields, res) ==
    [k \in {fields[i][1] : i \in 1..Len(fields)} |->
        res[CHOOSE i \in 1..Len(fields) : fields[i][1] = k].val]

Built(fields, res) ==
    IF FirstExc(res) # "none" THEN [exc |-> FirstExc(res), rec |-> <<>>]
    ELSE [exc |-> "none", rec |-> RecordOf(fields, res)]

\* generate_scout_report._overview(d, name)
Overview(d, name) ==
    LET r == d["ratings"]
        w == SafeFloat(SeriesGet(r, "Wins", Num(0)))
        l == SafeFloat(SeriesGet(r, "Losses", Num(0)))
        res == BuildFields(d, OverviewFields)
        exc == FirstExc(<<w, l>> \o res)
    IN  IF exc # "none" THEN [exc |-> exc, rec |-> <<>>]
        ELSE [exc |-> "none",
              rec |-> RecordOf(OverviewFields, res) @@
                      [team |-> name,
                       record |-> <<Fmt0(w.val), Fmt0(l.val)>>,
                       coach |-> SeriesGet(r, "Coach", Str(<<>>))]]

\* generate_scout_report._ff(d)
FF(d) == Built(FFFields, BuildFields(d, FFFields))

\* generate_scout_report._shooting(d)
Shooting(d) == Built(ShootingFields, BuildFields(d, ShootingFields))

\* generate_scout_report._ht(d)
Ht(d) == Built(HeightFields, BuildFields(d, HeightFields))

\* the five tables a team's rows are looked up in, in _team_data's order
TeamTables == <<"ratings", "ff", "misc", "pointdist", "height">>

\* generate_scout_report._team_data(name): one _row per table
TeamData(frames, name) ==
    LET looked == [i \in 1..Len(TeamTables) |-> Row(frames[TeamTables[i]], "TeamName", name)]
    IN  [exc |-> FirstExc(looked),
         d |-> [t \in {TeamTables[i] : i \in 1..Len(TeamTables)} |->
                   looked[CHOOSE i \in 1..Len(TeamTables) : TeamTables[i] = t].row]]

----------------------------------------------------------------------------
(* Callout engine: _generate_callouts                                      *)

\* float arithmetic and comparisons; every comparison with NaN is False
FSub(a, b) == IF a.nan \/ b.nan THEN FNaN ELSE Fl(a.n - b.n)
FAdd(a, b) == IF a.nan \/ b.nan THEN FNaN ELSE Fl(a.n + b.n)
FAbs(a) == IF a.nan THEN FNaN ELSE Fl(IF a.n < 0 THEN -a.n ELSE a.n)
FLt(a, b) == ~a.nan /\ ~b.nan /\ a.n < b.n
FGt(a, b) == ~a.nan /\ ~b.nan /\ a.n > b.n
FGe(a, b) == ~a.nan /\ ~b.nan /\ a.n >= b.n

\* dict.get(key, default)
DictGet(rec, key, default) == IF key \in DOMAIN rec THEN rec[key] ELSE default

\* c(priority, label, detail): label is <<text>> or <<text, team named>>,
\* detail the figures the sentence restates
Callout(priority, label, detail) ==
    [priority |-> priority, label |-> label, detail |-> detail]

CalloutCap == 8

\* `diff >= 3` on abs(h_tempo - a_tempo)
PaceMismatch(home_ov, away_ov) ==
    FGe(FAbs(FSub(home_ov.tempo, away_ov.tempo)), Fl(H(3)))

\* the mutated away-side rebounding test: the 3-point margin is dropped
AwayGlassEdgeNoMargin(home_ff, away_ff) == FGt(away_ff.or_pct, home_ff.d_or)

\* `home_ff["or_pct"] > away_ff["d_or"] + 3`
HomeGlassEdge(home_ff, away_ff) == FGt(home_ff.or_pct, FAdd(away_ff.d_or, Fl(H(3))))

\* `away_ff["or_pct"] > home_ff["d_or"] + 3`
AwayGlassEdge(home_ff, away_ff) == FGt(away_ff.or_pct, FAdd(home_ff.d_or, Fl(H(3))))

\* `home_sh["rank_fg3"] <= 50 and away_sh.get("rank_defg", 999) >= 200`
HomeThreeAttack(home_sh, away_sh) ==
    home_sh.rank_fg3 <= 50 /\ DictGet(away_sh, "rank_defg", 999) >= 200

\* `away_sh["rank_fg3"] <= 50 and home_sh.get("rank_defg", 999) >= 200`
AwayThreeAttack(home_sh, away_sh) ==
    away_sh.rank_fg3 <= 50 /\ DictGet(home_sh, "rank_defg", 999) >= 200

\* `home_ff["to_pct"] < away_ff["d_to"] - 3`
HomeBallSecurity(home_ff, away_ff) == FLt(home_ff.to_pct, FSub(away_ff.d_to, Fl(H(3))))

\* `away_ff["to_pct"] < home_ff["d_to"] - 3`
AwayBallSecurity(home_ff, away_ff) == FLt(away_ff.to_pct, FSub(home_ff.d_to, Fl(H(3))))

\* the mutated free-throw test: the rate must exceed 0.40
HomeFreeThrowsStrict(home_ff) == FGt(home_ff.ft_rate, Fl(40)) /\ home_ff.rank_ft <= 50

\* `home_ff["ft_rate"] >= 0.40 and home_ff["rank_ft"] <= 50`
HomeFreeThrows(home_ff) == FGe(home_ff.ft_rate, Fl(40)) /\ home_ff.rank_ft <= 50

\* `abs(em_diff) >= 8`
EfficiencyGap(home_ov, away_ov) ==
    FGe(FAbs(FSub(home_ov.adj_em, away_ov.adj_em)), Fl(H(8)))

\* `home_ht["experience"] > away_ht["experience"] + 0.5`
HomeExperience(home_ht, away_ht) ==
    FGt(home_ht.experience, FAdd(away_ht.experience, Fl(50)))

\* `home_sh["assist_rate"] >= 0.60 and home_sh["rank_assist"] <= 50`
HomeBallMovement(home_sh) == FGe(home_sh.assist_rate, Fl(60)) /\ home_sh.rank_assist <= 50

\* <<x>> when the rule fires, <<>> otherwise
When(cond, x) == IF cond THEN <<x>> ELSE <<>>

\* the callouts list as appended by the rules, before sorting
FiredCallouts(home_ov, away_ov, home_ff, away_ff, home_sh, away_sh, home_ht, away_ht, home_team, away_team) ==
    LET diff == FAbs(FSub(home_ov.tempo, away_ov.tempo))
        hFaster == FGt(home_ov.tempo, away_ov.tempo)
        em_diff == FSub(home_ov.adj_em, away_ov.adj_em)
        hBetter == FGt(em_diff, Fl(0))
    IN  When(PaceMismatch(home_ov, away_ov),
             Callout(1, <<"Pace Mismatch">>,
                     <<IF hFaster THEN home_team ELSE away_team,
                       IF hFaster THEN away_team ELSE home_team, diff>>))
        \o When(HomeGlassEdge(home_ff, away_ff),
             Callout(1, <<"Offensive Glass Edge", home_team>>,
                     <<home_team, home_ff.or_pct, away_team, away_ff.d_or>>))
        \o When(AwayGlassEdge(home_ff, away_ff),
             Callout(1, <<"Limit Offensive Rebounds", away_team>>,
                     <<away_team, away_ff.or_pct, home_team, home_ff.d_or>>))
        \o When(HomeThreeAttack(home_sh, away_sh),
             Callout(1, <<"3PT Attack", home_team>>,
                     <<home_team, home_sh.fg3_pct, home_sh.rank_fg3, away_team,
                       DictGet(away_sh, "rank_defg", "?")>>))
        \o When(AwayThreeAttack(home_sh, away_sh),
             Callout(1, <<"Contain 3PT Shooters", away_team>>,
                     <<away_team, away_sh.fg3_pct, away_sh.rank_fg3>>))
        \o When(HomeBallSecurity(home_ff, away_ff),
             Callout(2, <<"Ball Security", home_team>>,
                     <<home_team, home_ff.to_pct, away_team, away_ff.d_to>>))
        \o When(AwayBallSecurity(home_ff, away_ff),
             Callout(2, <<"Force Turnovers", away_team>>,
                     <<away_team, away_ff.to_pct, home_team, home_ff.d_to>>))
        \o When(HomeFreeThrows(home_ff),
             Callout(2, <<"Attack the Paint", home_team>>,
                     <<home_team, home_ff.rank_ft>>))
        \o When(EfficiencyGap(home_ov, away_ov),
             Callout(2, <<"Significant Efficiency Gap">>,
                     <<IF hBetter THEN home_team ELSE away_team, FAbs(em_diff),
                       IF hBetter THEN away_team ELSE home_team>>))
        \o When(HomeExperience(home_ht, away_ht),
             Callout(3, <<"Experience Edge", home_team>>,
                     <<home_team, home_ht.experience, away_team, away_ht.experience>>))
        \o When(HomeBallMovement(home_sh),
             Callout(3, <<"Ball Movement", home_team>>,
                     <<home_team, home_sh.rank_assist, home_sh.assist_rate>>))

\* the mutated sort: ties are reversed (not stable)
RECURSIVE SortTiesReversed(_)
SortTiesReversed(s) ==
    IF s = <<>> THEN <<>>
    ELSE LET rest == SortTiesReversed(Tail(s))
             x == Head(s)
             k == Cardinality({i \in 1..Len(rest) : rest[i].priority <= x.priority})
         IN  SubSeq(rest, 1, k) \o <<x>> \o SubSeq(rest, k + 1, Len(rest))

\* callouts.sort(key=lambda x: x["priority"]): ascending, stable
RECURSIVE SortByPriority(_)
SortByPriority(s) ==
    IF s = <<>> THEN <<>>
    ELSE LET rest == SortByPriority(Tail(s))
             x == Head(s)
             k == Cardinality({i \in 1..Len(rest) : rest[i].priority < x.priority})
         IN  SubSeq(rest, 1, k) \o <<x>> \o SubSeq(rest, k + 1, Len(rest))

\* the mutated cap: one element too many
CapOffByOne(s) == SubSeq(s, 1, IF Len(s) < CalloutCap + 1 THEN Len(s) ELSE CalloutCap + 1)

\* callouts[:8]
Cap(s) == SubSeq(s, 1, IF Len(s) < CalloutCap THEN Len(s) ELSE CalloutCap)

\* _generate_callouts(...): fire the rules, sort by priority, cap at 8
GenerateCallouts(home_ov, away_ov, home_ff, away_ff, home_sh, away_sh, home_ht, away_ht, home_team, away_team) ==
    Cap(SortByPriority(FiredCallouts(home_ov, away_ov, home_ff, away_ff,
                                     home_sh, away_sh, home_ht, away_ht,
                                     home_team, away_team)))

----------------------------------------------------------------------------
(* generate_scout_report                                                   *)

FanmatchFields == <<
    <<"home_pred", "fanmatch", "HomePred", "f">>,
    <<"visitor_pred", "fanmatch", "VisitorPred", "f">>,
    <<"home_wp", "fanmatch", "HomeWP", "f">>,
    <<"pred_tempo", "fanmatch", "PredTempo", "f">>,
    <<"thrill", "fanmatch", "ThrillScore", "f">> >>

\* `home_team.lower() in h_name or away_team.lower() in v_name`
FixtureMatches(row, home_team, away_team) ==
    \/ PyIn(PyLower(home_team), PyLower(PyStr(SeriesGet(row, "Home", Str(<<>>)))))
    \/ PyIn(PyLower(away_team), PyLower(PyStr(SeriesGet(row, "Visitor", Str(<<>>)))))

\* the fanmatch block: fm_game = {} unless a row of the feed matches; first match wins
FmGame(fanmatch, home_team, away_team) ==
    IF FrameEmpty(fanmatch) THEN [exc |-> "none", rec |-> <<>>]
    ELSE LET hits == {i \in 1..Len(fanmatch.rows) :
                         FixtureMatches(fanmatch.rows[i], home_team, away_team)}
         IN  IF hits = {} THEN [exc |-> "none", rec |-> <<>>]
             ELSE LET row == fanmatch.rows[CHOOSE i \in hits : \A j \in hits : i <= j]
                  IN  Built(FanmatchFields,
                            BuildFields([fanmatch |-> row], FanmatchFields))

\* the provider calls whose failure leaves generate_scout_report, in call order
ScoutFetches == <<"ratings", "ff", "misc", "pointdist", "height">>

Raised(op, exc, stage) == [op |-> op, exc |-> exc, stage |-> stage, report |-> <<>>]
Returned(op, report) == [op |-> op, exc |-> "none", stage |-> "return", report |-> report]

\* index of the first step that raised
FirstBad(steps) ==
    CHOOSE i \in 1..Len(steps) :
        steps[i].exc # "none" /\ \A j \in 1..(i - 1) : steps[j].exc = "none"

\* the mutated fanmatch fetch: its failure is not caught
FanmatchUncaught(fd) == fd["fanmatch"]

\* try: fanmatch = kp.get_fanmatch(game_date) except Exception: pd.DataFrame()
FanmatchFetch(fd) ==
    IF fd["fanmatch"].exc # "none" THEN [exc |-> "none", df |-> EmptyFrame]
    ELSE fd["fanmatch"]

\* generate_scout_report(kp, home_team, away_team): fd is what each provider
\* method does when called (raise, or return a DataFrame)
ScoutReport(fd, home_team, away_team) ==
    LET fetched == [i \in 1..Len(ScoutFetches) |-> fd[ScoutFetches[i]]]
        frames == [t \in {ScoutFetches[i] : i \in 1..Len(ScoutFetches)} |-> fd[t].df]
        fanmatch == FanmatchFetch(fd)
        home == TeamData(frames, home_team)
        away == TeamData(frames, away_team)
        home_ov == Overview(home.d, home_team)
        away_ov == Overview(away.d, away_team)
        home_ff == FF(home.d)
        away_ff == FF(away.d)
        home_sh == Shooting(home.d)
        away_sh == Shooting(away.d)
        home_ht == Ht(home.d)
        away_ht == Ht(away.d)
        fm == FmGame(fanmatch.df, home_team, away_team)
        steps == <<[exc |-> FirstExc(fetched)], [exc |-> fanmatch.exc],
                   [exc |-> home.exc], [exc |-> away.exc],
                   [exc |-> home_ov.exc], [exc |-> away_ov.exc],
                   [exc |-> home_ff.exc], [exc |-> away_ff.exc],
                   [exc |-> home_sh.exc], [exc |-> away_sh.exc],
                   [exc |-> home_ht.exc], [exc |-> away_ht.exc],
                   [exc |-> fm.exc]>>
        stages == <<"fetch", "fanmatch", "_row", "_row", "_overview", "_overview",
                    "_ff", "_ff", "_shooting", "_shooting", "_ht", "_ht", "fm_game">>
    IN  IF FirstExc(steps) # "none"
        THEN Raised("scout", FirstExc(steps), stages[FirstBad(steps)])
        ELSE Returned("scout",
                 [home_team |-> home_team, away_team |-> away_team,
                  home_overview |-> home_ov.rec, away_overview |-> away_ov.rec,
                  home_ff |-> home_ff.rec, away_ff |-> away_ff.rec,
                  home_shooting |-> home_sh.rec, away_shooting |-> away_sh.rec,
                  home_height |-> home_ht.rec, away_height |-> away_ht.rec,
                  fanmatch |-> fm.rec,
                  callouts |-> GenerateCallouts(home_ov.rec, away_ov.rec,
                                                home_ff.rec, away_ff.rec,
                                                home_sh.rec, away_sh.rec,
                                                home_ht.rec, away_ht.rec,
                                                home_team, away_team)])

----------------------------------------------------------------------------
(* generate_season_report and _build_efficiency_trend                      *)

\* the snapshot days (offsets from the season start, 1 November of year-1):
\* season_start + i*step for i in range(8), stopping at the first one after today
SnapStep(delta) == IF delta \div 8 > 1 THEN delta \div 8 ELSE 1
SnapDays(delta) ==
    IF delta <= 0 THEN <<>>
    ELSE LET n == Cardinality({i \in 0..7 : i * SnapStep(delta) <= delta})
         IN  [k \in 1..n |-> (k - 1) * SnapStep(delta)]

\* one pass of the loop body: <<row>> when the snapshot yields a row, <<>> when it
\* is skipped (fetch failed, empty frame, team absent, or any exception)
TrendRow(arch, team_name, day) ==
    IF arch[day].exc # "none" THEN <<>>
    ELSE IF FrameEmpty(arch[day].df) THEN <<>>
    ELSE LET looked == Row(arch[day].df, "TeamName", team_name)
             row == looked.row
             em == FloatField(row, "AdjEM")
             rk == FloatField(row, "RankAdjEM")
             oe == FloatField(row, "AdjOE")
             de == FloatField(row, "AdjDE")
         IN  IF looked.exc # "none" THEN <<>>
             ELSE IF DOMAIN row = {} THEN <<>>
             ELSE IF FirstExc(<<em, rk, oe, de>>) # "none" THEN <<>>
             ELSE << [date |-> day, AdjEM |-> em.val, RankAdjEM |-> rk.val,
                      AdjOE |-> oe.val, AdjDE |-> de.val] >>

RECURSIVE TrendRows(_, _, _)
TrendRows(arch, team_name, days) ==
    IF days = <<>> THEN <<>>
    ELSE TrendRow(arch, team_name, Head(days)) \o TrendRows(arch, team_name, Tail(days))

\* _build_efficiency_trend(kp, team_name, year); delta = (today - season_start).days
BuildEfficiencyTrend(arch, team_name, delta) ==
    IF delta <= 0 THEN <<>> ELSE TrendRows(arch, team_name, SnapDays(delta))

\* round(a / b) for b > 0: half to even
RoundDiv(a, b) ==
    LET q == a \div b
        r == a - q * b
    IN  IF 2 * r < b THEN q
        ELSE IF 2 * r > b THEN q + 1
        ELSE IF q % 2 = 0 THEN q ELSE q + 1

\* pctile(rank_val): 0 when the rank coerces to 0, else max(0, round((1 - r/n_teams)*100))
Pctile(rank_val, n_teams) ==
    LET sf == SafeFloat(rank_val)
    IN  IF sf.exc # "none" THEN [exc |-> sf.exc, val |-> 0]
        ELSE IF sf.val.nan THEN [exc |-> "ValueError", val |-> 0]
        ELSE IF sf.val.n = 0 THEN [exc |-> "none", val |-> 0]
        ELSE IF n_teams = 0 THEN [exc |-> "ZeroDivisionError", val |-> 0]
        ELSE LET p == RoundDiv(100 * n_teams - sf.val.n, n_teams)
             IN  [exc |-> "none", val |-> IF p > 0 THEN p ELSE 0]

SeasonShootingFields == <<
    <<"3pt_pct", "misc", "FG3Pct", "f">>,
    <<"3pt_rank", "misc", "RankFG3Pct", "r">>,
    <<"2pt_pct", "misc", "FG2Pct", "f">>,
    <<"2pt_rank", "misc", "RankFG2Pct", "r">>,
    <<"ft_pct", "misc", "FTPct", "f">>,
    <<"ft_rank", "misc", "RankFTPct", "r">>,
    <<"3pa_rate", "misc", "F3GRate", "f">>,
    <<"3pa_rank", "misc", "RankF3GRate", "r">>,
    <<"assist_rate", "misc", "ARate", "f">>,
    <<"assist_rank", "misc", "RankARate", "r">>,
    <<"steal_rate", "misc", "StlRate", "f">>,
    <<"block_pct", "misc", "BlockPct", "f">>,
    <<"pct_from_3", "pointdist", "OffFg3", "f">>,
    <<"pct_from_2", "pointdist", "OffFg2", "f">>,
    <<"pct_from_ft", "pointdist", "OffFt", "f">> >>

TeamProfileFields == <<
    <<"adj_em", "ratings", "AdjEM", "f">>,
    <<"rank_em", "ratings", "RankAdjEM", "r">>,
    <<"adj_oe", "ratings", "AdjOE", "f">>,
    <<"rank_oe", "ratings", "RankAdjOE", "r">>,
    <<"adj_de", "ratings", "AdjDE", "f">>,
    <<"rank_de", "ratings", "RankAdjDE", "r">>,
    <<"tempo", "ratings", "AdjTempo", "f">>,
    <<"rank_tempo", "ratings", "RankAdjTempo", "r">>,
    <<"sos", "ratings", "SOS", "f">>,
    <<"rank_sos", "ratings", "RankSOS", "r">>,
    <<"luck", "ratings", "Luck", "f">>,
    <<"experience", "height", "Exp", "f">>,
    <<"bench", "height", "Bench", "f">>,
    <<"continuity", "height", "Continuity", "f">> >>

\* BIG_EAST_CONF
BigEastConf == <<"B", "E">>

\* all_ratings[all_ratings["ConfShort"] == conf_short]
ConfRows(df, conf_short) ==
    SelectSeq(df.rows, LAMBDA row : row["ConfShort"].kind = "str" /\ row["ConfShort"].s = conf_short)

\* what a cell compares as when pandas sorts an object column
SortClass(v) ==
    CASE v.kind \in {"num", "bigint"} -> "number"
      [] v.kind \in {"str", "numstr"} -> "str"
      [] v.kind = "container" -> "list"
      [] OTHER -> "null"

\* descending key of a cell: numbers by value, nulls (and unordered text) last
RECURSIVE SortDescending(_, _)
SortDescending(rows, col) ==
    IF rows = <<>> THEN <<>>
    ELSE LET rest == SortDescending(Tail(rows), col)
             x == Head(rows)
             Before(y) == /\ SortClass(y[col]) = "number"
                          /\ \/ SortClass(x[col]) # "number"
                             \/ y[col].kind = "bigint" /\ x[col].kind # "bigint"
                             \/ y[col].kind = "num" /\ x[col].kind = "num" /\ y[col].n > x[col].n
             k == Cardinality({i \in 1..Len(rest) : Before(rest[i])})
         IN  SubSeq(rest, 1, k) \o <<x>> \o SubSeq(rest, k + 1, Len(rest))

\* conf_teams.sort_values("AdjEM", ascending=False): KeyError without the column,
\* TypeError when the cells to order are of different types
SortValues(rows, cols, col) ==
    IF col \notin cols THEN [exc |-> "KeyError", rows |-> <<>>]
    ELSE IF Cardinality({SortClass(rows[i][col]) : i \in 1..Len(rows)} \ {"null"}) > 1
    THEN [exc |-> "TypeError", rows |-> <<>>]
    ELSE [exc |-> "none", rows |-> SortDescending(rows, col)]

\* the provider calls whose failure leaves generate_season_report, in call order
SeasonFetches == <<"ratings", "ff", "misc", "height", "pointdist", "confratings">>

\* generate_season_report(kp, team_name): fd as for ScoutReport, arch is what
\* get_archive does for each snapshot day, delta the days since the season start
SeasonReport(fd, arch, team_name, delta) ==
    LET fetched == [i \in 1..Len(SeasonFetches) |-> fd[SeasonFetches[i]]]
        all_ratings == fd["ratings"].df
        all_ff == fd["ff"].df
        team_r == Row(all_ratings, "TeamName", team_name)
        team_ff == Row(all_ff, "TeamName", team_name)
        team_ms == Row(fd["misc"].df, "TeamName", team_name)
        team_ht == Row(fd["height"].df, "TeamName", team_name)
        team_pd == Row(fd["pointdist"].df, "TeamName", team_name)
        d == [ratings |-> team_r.row, ff |-> team_ff.row, misc |-> team_ms.row,
              height |-> team_ht.row, pointdist |-> team_pd.row]
        conf_short == PyStr(SeriesGet(team_r.row, "ConfShort", Str(BigEastConf)))
        n_teams == Len(all_ratings.rows)
        hasConf == "ConfShort" \in all_ratings.cols
        conf_teams == SortValues(IF hasConf THEN ConfRows(all_ratings, conf_short) ELSE <<>>,
                                 all_ratings.cols, "AdjEM")
        conf_names == {conf_teams.rows[i]["TeamName"] : i \in 1..Len(conf_teams.rows)}
        conf_ff_all == SelectSeq(all_ff.rows, LAMBDA row : row["TeamName"] \in conf_names)
        trend == BuildEfficiencyTrend(arch, team_name, delta)
        shooting == Built(SeasonShootingFields, BuildFields(d, SeasonShootingFields))
        w == SafeFloat(SeriesGet(team_r.row, "Wins", Num(0)))
        l == SafeFloat(SeriesGet(team_r.row, "Losses", Num(0)))
        tp == BuildFields(d, TeamProfileFields)
        pem == Pctile(SeriesGet(team_r.row, "RankAdjEM", None), n_teams)
        poe == Pctile(SeriesGet(team_r.row, "RankAdjOE", None), n_teams)
        pde == Pctile(SeriesGet(team_r.row, "RankAdjDE", None), n_teams)
        profile == <<w, l>> \o tp \o <<pem, poe, pde>>
        ffp == Built(FFFields, BuildFields(d, FFFields))
        steps == <<[exc |-> FirstExc(fetched)],
                   [exc |-> team_r.exc], [exc |-> team_ff.exc], [exc |-> team_ms.exc],
                   [exc |-> team_ht.exc], [exc |-> team_pd.exc],
                   [exc |-> IF hasConf THEN "none" ELSE "KeyError"],
                   [exc |-> conf_teams.exc],
                   [exc |-> shooting.exc], [exc |-> FirstExc(profile)], [exc |-> ffp.exc]>>
        stages == <<"fetch", "_row", "_row", "_row", "_row", "_row", "conf_teams",
                    "sort_values", "shooting_profile", "team_profile", "ff_profile">>
    IN  IF FirstExc(steps) # "none"
        THEN Raised("season", FirstExc(steps), stages[FirstBad(steps)])
        ELSE Returned("season",
                 [team_profile |-> RecordOf(TeamProfileFields, tp) @@
                                   [team |-> team_name,
                                    record |-> <<Fmt0(w.val), Fmt0(l.val)>>,
                                    coach |-> SeriesGet(team_r.row, "Coach", Str(<<>>)),
                                    conf |-> conf_short,
                                    pctile_em |-> pem.val, pctile_oe |-> poe.val,
                                    pctile_de |-> pde.val, n_teams |-> n_teams],
                  ff_profile |-> ffp.rec,
                  shooting_profile |-> shooting.rec,
                  conf_teams |-> conf_teams.rows,
                  conf_ff |-> conf_ff_all,
                  conf_ratings |-> fd["confratings"].df,
                  efficiency_trend |-> trend])

----------------------------------------------------------------------------
(* Provider data: the frames KenPomClient._df hands to the report engine   *)

Duke == <<"D", "u", "k", "e">>
DukeLower == <<"d", "u", "k", "e">>
Kansas == <<"K", "U">>
Unc == <<"U", "N", "C">>

AllFields == OverviewFields \o FFFields \o ShootingFields \o HeightFields
             \o SeasonShootingFields \o TeamProfileFields \o FanmatchFields

\* the columns the engine reads from a table
ColsOf(t) == {AllFields[i][3] : i \in {j \in 1..Len(AllFields) : AllFields[j][2] = t}}
RankCols == {AllFields[i][3] : i \in {j \in 1..Len(AllFields) : AllFields[j][4] = "r"}}
TextCols == {"TeamName", "Coach", "ConfShort", "Home", "Visitor"}

TableCols(t) ==
    CASE t = "ratings" -> ColsOf(t) \cup {"TeamName", "Wins", "Losses", "Coach", "ConfShort"}
      [] t = "fanmatch" -> ColsOf(t) \cup {"Home", "Visitor"}
      [] t = "archive" -> {"TeamName", "AdjEM", "RankAdjEM", "AdjOE", "AdjDE"}
      [] t = "confratings" -> {"ConfShort", "Rating"}
      [] OTHER -> ColsOf(t) \cup {"TeamName"}

\* an ordinary cell of a column: rank 100, value 30.0
BaseCell(c) ==
    CASE c = "Coach" -> Str(<<"c">>)
      [] c = "ConfShort" -> Str(BigEastConf)
      [] c = "Home" -> Str(Duke)
      [] c = "Visitor" -> Str(Kansas)
      [] c \in RankCols -> Num(H(100))
      [] OTHER -> Num(H(30))

\* a team's row of table t: the cells given in vals, ordinary cells elsewhere
TeamRow(t, name, vals) ==
    [c \in TableCols(t) |->
        IF c = "TeamName" THEN Str(name)
        ELSE IF c \in DOMAIN vals THEN vals[c]
        ELSE BaseCell(c)]

NoVals == [c \in {} |-> None]

\* a well-formed frame of table t with one row per team of the game
BaseFrame(t) ==
    IF t \in {"fanmatch", "confratings"}
    THEN DataFrame(TableCols(t), <<[c \in TableCols(t) |-> BaseCell(c)]>>)
    ELSE DataFrame(TableCols(t), <<TeamRow(t, Duke, NoVals), TeamRow(t, Kansas, NoVals)>>)

Endpoints == {"ratings", "ff", "misc", "pointdist", "height", "fanmatch", "confratings"}
TeamTableSet == {"ratings", "ff", "misc", "pointdist", "height"}

\* a provider method that returns df / that raises e
Gives(df) == [exc |-> "none", df |-> df]
Fails(e) == [exc |-> e, df |-> EmptyFrame]

\* the errors KenPomClient._get raises
FetchErrors == {"PermissionError", "RuntimeError", "ConnectionError"}

BaseFeed == [e \in Endpoints |-> Gives(BaseFrame(e))]
BaseArchive == [day \in 0..MaxDelta |-> Gives(BaseFrame("archive"))]

\* the cells a provider row may hold
CellValues ==
    {Num(n) : n \in {0, 50, H(1) + 50, H(12), -(H(2) + 50)}}
    \cup {NumStr(n) : n \in {0, H(7), H(1) + 50}}
    \cup {Str(<<"N", "A">>), None, NaNCell, Container, BigInt}

\* a key the row does not have
Missing == [kind |-> "missing", n |-> 0, s |-> <<>>]

\* the frame of table t seen under each data-absence shape:
\* no data at all, the team not listed, or the team's row holding cell v throughout
\* (v = Missing: the frame has no column but TeamName)
ShapedFrame(t, shape, name, v) ==
    CASE shape = "empty" -> EmptyFrame
      [] shape = "nomatch" -> DataFrame(TableCols(t), <<TeamRow(t, Unc, NoVals)>>)
      [] shape = "row" ->
            IF v = Missing
            THEN DataFrame({"TeamName"}, <<[c \in {"TeamName"} |-> Str(name)],
                                           [c \in {"TeamName"} |-> Str(Kansas)]>>)
            ELSE DataFrame(TableCols(t),
                     <<TeamRow(t, name, [c \in TableCols(t) \ {"TeamName"} |-> v]),
                       TeamRow(t, Kansas, NoVals)>>)

----------------------------------------------------------------------------
(* Actions of the report engine                                            *)

\* a call of generate_scout_report
GenerateScoutReport ==
    /\ result' = ScoutReport(feed, req.home, req.away)
    /\ UNCHANGED <<feed, archive, req, cacheVars, coerceVars>>

\* a call of generate_season_report
GenerateSeasonReport ==
    /\ result' = SeasonReport(feed, archive, req.home, req.delta)
    /\ UNCHANGED <<feed, archive, req, cacheVars, coerceVars>>

\* a call of _safe_float on a cell
CallSafeFloat ==
    /\ raw # Missing
    /\ coerced' = [fn |-> "_safe_float", out |-> SafeFloat(raw)]
    /\ UNCHANGED <<raw, cacheVars, reportVars>>

\* the rank coercion int(_safe_float(row.get(field, 999))) on a row holding the cell
CallRankCoerce ==
    /\ coerced' = [fn |-> "rank",
                   out |-> RankCoerce(IF raw = Missing THEN EmptySeries
                                      ELSE [c \in {"RankAdjEM"} |-> raw], "RankAdjEM")]
    /\ UNCHANGED <<raw, cacheVars, reportVars>>

\* Normalisation: one table of the feed is short of data, a cell is given
InitNorm ==
    /\ InitCache
    /\ \E v \in CellValues \cup {Missing}, t \in TeamTableSet,
          shape \in {"empty", "nomatch", "row"}, h \in {Duke, DukeLower} :
          /\ raw = v
          /\ feed = [BaseFeed EXCEPT ![t] = Gives(ShapedFrame(t, shape, Duke, v))]
          /\ req = [home |-> h, away |-> Kansas, delta |-> MaxDelta]
    /\ archive = BaseArchive
    /\ result = NoResult
    /\ coerced = NoCoercion

NextNorm ==
    \/ GenerateScoutReport
    \/ GenerateSeasonReport
    \/ CallSafeFloat
    \/ CallRankCoerce

SpecNorm == InitNorm /\ [][NextNorm]_vars

\* Provider failures: any set of provider methods raises
InitFetch ==
    /\ InitCache /\ IdleCoerce
    /\ \E failing \in SUBSET Endpoints, days \in SUBSET (0..MaxDelta), e \in FetchErrors :
          /\ feed = [x \in Endpoints |-> IF x \in failing THEN Fails(e) ELSE BaseFeed[x]]
          /\ archive = [day \in 0..MaxDelta |->
                           IF day \in days THEN Fails(e) ELSE BaseArchive[day]]
    /\ \E d \in {0, MaxDelta} : req = [home |-> Duke, away |-> Kansas, delta |-> d]
    /\ result = NoResult

NextFetch ==
    \/ GenerateScoutReport
    \/ GenerateSeasonReport

SpecFetch == InitFetch /\ [][NextFetch]_vars

\* Callouts: both teams' rows are drawn from season profiles that put every rule
\* on either side of its threshold, and on it.
\* pace and efficiency margin: AdjTempo, AdjEM
Styles == { <<H(65), 0>>, <<H(68), H(8)>>, <<H(70), 0>> }
\* possessions: <<OR_Pct, DOR_Pct>>, <<TO_Pct, DTO_Pct>>
Possessions == { << <<H(35), H(27)>>, <<H(15), H(22)>> >>,
                 << <<H(35), H(32)>>, <<H(15), H(18)>> >>,
                 << <<H(35), H(27)>>, <<H(15), H(18)>> >> }
\* three-point shooting and defence: RankFG3Pct, RankDeFG_Pct
Threes == { <<50, 200>>, <<50, 199>>, <<51, 200>> }
\* roster: <<FT_Rate, RankFT_Rate, ARate, RankARate>>, Exp
Rosters == { << <<40, 50, 60, 50>>, H(3) >>,
             << <<39, 50, 60, 51>>, H(2) + 50 >>,
             << <<40, 50, 60, 50>>, H(2) >> }

Profiles ==
    {<<s, po[1], po[2], th, ro[1], ro[2]>> :
        s \in Styles, po \in Possessions, th \in Threes, ro \in Rosters}

\* the cells a profile sets in table t
ProfileVals(t, p) ==
    CASE t = "ratings" -> [AdjTempo |-> Num(p[1][1]), AdjEM |-> Num(p[1][2])]
      [] t = "ff" -> [OR_Pct |-> Num(p[2][1]), DOR_Pct |-> Num(p[2][2]),
                      TO_Pct |-> Num(p[3][1]), DTO_Pct |-> Num(p[3][2]),
                      RankDeFG_Pct |-> Num(H(p[4][2])),
                      FT_Rate |-> Num(p[5][1]), RankFT_Rate |-> Num(H(p[5][2]))]
      [] t = "misc" -> [RankFG3Pct |-> Num(H(p[4][1])),
                        ARate |-> Num(p[5][3]), RankARate |-> Num(H(p[5][4]))]
      [] t = "height" -> [Exp |-> Num(p[6])]
      [] OTHER -> NoVals

\* the feed in which Duke has profile p and Kansas profile q
ProfileFeed(p, q) ==
    [e \in Endpoints |->
        IF e \in TeamTableSet
        THEN Gives(DataFrame(TableCols(e), <<TeamRow(e, Duke, ProfileVals(e, p)),
                                             TeamRow(e, Kansas, ProfileVals(e, q))>>))
        ELSE BaseFeed[e]]

InitCallouts ==
    /\ InitCache /\ IdleCoerce
    /\ \E p \in Profiles, q \in Profiles :
          /\ feed = ProfileFeed(p, q)
          /\ req = [home |-> Duke, away |-> Kansas, delta |-> 0]
    /\ archive = BaseArchive
    /\ result = NoResult

NextCallouts == GenerateScoutReport

SpecCallouts == InitCallouts /\ [][NextCallouts]_vars

----------------------------------------------------------------------------
(* generate_postgame_report._compute_ff                                    *)
(* Box-score totals are floats in hundredths like every other float; the   *)
(* derived figures are integers in the unit of their rounding: tenths for  *)
(* eFG%, TO%, OR% and possessions, thousandths for FT rate and PPP.        *)

\* round(num / den) to the nearest integer, half to even; den # 0
PyRound(num, den) == IF den > 0 THEN RoundDiv(num, den) ELSE RoundDiv(-num, -den)

\* ts(key): _safe_float(team_stats.get(key, 0))
StatOf(team_stats, key) == SafeFloat(DictGet(team_stats, key, Num(0)))

\* `a or b` on floats: a unless a == 0 (nan is truthy)
FloatOr(a, b) == IF a.nan \/ a.n # 0 THEN a ELSE b

\* the mutated estimate: no guard on fg_att
PossessionEstimateUnguarded(fg_att, oreb, tov, ft_att) ==
    40 * (fg_att - oreb + tov) + 19 * ft_att

\* `fg_att - oreb + tov + 0.475 * ft_att if fg_att else 0`, in units of 1/4000
\* (arguments in hundredths: 40 * hundredths is 4000 * value, 19/40 = 0.475)
PossessionEstimate(fg_att, oreb, tov, ft_att) ==
    IF fg_att # 0 THEN 40 * (fg_att - oreb + tov) + 19 * ft_att ELSE 0

\* the mutated eFG: made threes are not weighted by 0.5
EfgUnweighted(fg_made, fg3_made, fg_att) ==
    IF fg_att # 0 THEN PyRound((fg_made + fg3_made) * 1000, fg_att) ELSE 0

\* round(((fg_made + 0.5 * fg3_made) / fg_att if fg_att else 0) * 100, 1), in tenths
Efg(fg_made, fg3_made, fg_att) ==
    IF fg_att # 0 THEN PyRound((2 * fg_made + fg3_made) * 1000, 2 * fg_att) ELSE 0

\* round((tov / possessions if possessions else 0) * 100, 1), in tenths
ToPct(tov, poss) == IF poss # 0 THEN PyRound(40000 * tov, poss) ELSE 0

\* the mutated OR%: offensive over defensive rebounds
OrPctOverDefensive(oreb, dreb) == IF dreb # 0 THEN PyRound(oreb * 1000, dreb) ELSE 0

\* round((oreb / (oreb + dreb) if (oreb + dreb) else 0) * 100, 1), in tenths
OrPct(oreb, dreb) == IF oreb + dreb # 0 THEN PyRound(oreb * 1000, oreb + dreb) ELSE 0

\* round(ft_made / fg_att if fg_att else 0, 3), in thousandths
FtRate(ft_made, fg_att) == IF fg_att # 0 THEN PyRound(ft_made * 1000, fg_att) ELSE 0

\* round(pts / possessions if possessions else 0, 3), in thousandths
Ppp(pts, poss) == IF poss # 0 THEN PyRound(40000 * pts, poss) ELSE 0

\* round(possessions, 1) meets decimal ties x.x5 that no double holds: the
\* double nearest to x + 0.475 * ft_att decides. With whole totals a tie needs
\* ft_att = 2 (mod 4); for those up to 42 free throws and x = fg_att - oreb + tov
\* in -40..130, the double lies above the tie exactly for the x listed here.
DoubleAboveTie(ft_att, x) ==
    CASE ft_att = 2 -> x \in (-40..-33) \cup (-8..-3) \cup (2..7) \cup (32..127)
      [] ft_att = 6 -> x \in (-40..-19) \cup (14..61)
      [] ft_att = 10 -> x \in -40..130
      [] ft_att = 14 -> x \in 58..130
      [] ft_att = 18 -> x \in 120..130
      [] ft_att = 22 -> x \in 22..117
      [] ft_att = 26 -> x \in (-40..-29) \cup (4..51)
      [] ft_att = 34 -> x \in 48..130
      [] ft_att = 38 -> x \in (-40..13) \cup (110..130)
      [] ft_att = 42 -> x \in 13..108
      [] OTHER -> FALSE

\* round(possessions, 1), in tenths, of an estimate in units of 1/4000
RoundPossessions(poss, fg_att, oreb, tov, ft_att) ==
    IF poss % 400 = 200 /\ ft_att % 100 = 0 /\ (fg_att - oreb + tov) % 100 = 0
    THEN IF DoubleAboveTie(ft_att \div 100, (fg_att - oreb + tov) \div 100)
         THEN (poss + 200) \div 400 ELSE (poss - 200) \div 400
    ELSE PyRound(poss, 400)

\* the box-score keys _compute_ff reads, in the order it reads them
StatKeys == <<"fieldGoalsMade", "fieldGoalsAttempted", "threePointFieldGoalsMade",
              "threePointFieldGoalsAttempted", "freeThrowsMade", "freeThrowsAttempted",
              "offensiveRebounds", "defensiveRebounds", "turnovers", "totalTurnovers",
              "points">>

\* _compute_ff(team_stats): a nan among the floats handed to int() raises
\* ValueError; a nan defensive-rebound count only makes OR% nan (nans names
\* the keys whose value is nan)
ComputeFF(team_stats) ==
    LET read == [i \in 1..Len(StatKeys) |-> StatOf(team_stats, StatKeys[i])]
        fg_made == read[1].val
        fg_att == read[2].val
        fg3_made == read[3].val
        fg3_att == read[4].val
        ft_made == read[5].val
        ft_att == read[6].val
        oreb == read[7].val
        dreb == read[8].val
        tov == FloatOr(read[9].val, read[10].val)
        pts == FloatOr(read[11].val, Fl(2 * fg_made.n + fg3_made.n + ft_made.n))
        poss == PossessionEstimate(fg_att.n, oreb.n, tov.n, ft_att.n)
        ints == <<pts, fg_made, fg_att, fg3_made, fg3_att, ft_made, ft_att, oreb, tov>>
    IN  IF FirstExc(read) # "none" THEN [exc |-> FirstExc(read), rec |-> <<>>]
        ELSE IF \E i \in 1..Len(ints) : ints[i].nan
        THEN [exc |-> "ValueError", rec |-> <<>>]
        ELSE [exc |-> "none",
              rec |-> [efg_pct |-> Efg(fg_made.n, fg3_made.n, fg_att.n),
                       to_pct |-> ToPct(tov.n, poss),
                       or_pct |-> IF dreb.nan THEN 0 ELSE OrPct(oreb.n, dreb.n),
                       nans |-> IF dreb.nan THEN {"or_pct"} ELSE {},
                       ft_rate |-> FtRate(ft_made.n, fg_att.n),
                       possessions |-> RoundPossessions(poss, fg_att.n, oreb.n, tov.n, ft_att.n),
                       ppp |-> Ppp(pts.n, poss),
                       pts |-> PyInt(pts).val,
                       fg_made |-> PyInt(fg_made).val,
                       fg_att |-> PyInt(fg_att).val,
                       fg3_made |-> PyInt(fg3_made).val,
                       fg3_att |-> PyInt(fg3_att).val,
                       ft_made |-> PyInt(ft_made).val,
                       ft_att |-> PyInt(ft_att).val,
                       oreb |-> PyInt(oreb).val,
                       tov |-> PyInt(tov).val]]

----------------------------------------------------------------------------
(* Box-score totals handed to _compute_ff                                  *)

\* largest count of the exhaustive grid of totals
MaxTotal == 2

\* totals are <<FGM, FGA, 3PM, FTM, FTA, OREB, DREB, TOV>>
TotalsGrid ==
    (0..MaxTotal) \X (0..MaxTotal) \X (0..MaxTotal) \X (0..1) \X (0..1)
        \X (0..MaxTotal) \X (0..1) \X (0..1)

\* box scores of played games, and totals at the edges of the formulas
TotalsPlayed ==
    { <<28, 59, 8, 14, 18, 10, 25, 11>>,
      <<25, 62, 6, 10, 15, 8, 27, 14>>,
      <<10, 10, 10, 0, 0, 0, 5, 0>>,
      <<3, 20, 0, 5, 40, 39, 0, 0>>,
      <<6, 17, 0, 3, 4, 2, 9, 5>>,
      <<10, 33, 0, 6, 8, 4, 12, 7>> }

\* team_stats as get_box_score builds it: the made-attempted pairs expanded to
\* floats, the other statistics kept as display strings; ESPN names the
\* turnovers either "turnovers" or "totalTurnovers" and may give "points"
TeamStats(form, t) ==
    [fieldGoalsMade |-> Num(H(t[1])), fieldGoalsAttempted |-> Num(H(t[2])),
     threePointFieldGoalsMade |-> Num(H(t[3])),
     threePointFieldGoalsAttempted |-> Num(H(t[3])),
     freeThrowsMade |-> Num(H(t[4])), freeThrowsAttempted |-> Num(H(t[5])),
     offensiveRebounds |-> NumStr(H(t[6])), defensiveRebounds |-> NumStr(H(t[7]))]
    @@ (IF form = "turnovers" THEN [turnovers |-> NumStr(H(t[8]))]
        ELSE [totalTurnovers |-> NumStr(H(t[8])),
              points |-> NumStr(H(2 * t[1] + t[3] + t[4]))])

\* a call of _compute_ff on a side's team_stats
CallComputeFF ==
    /\ coerced' = [fn |-> "_compute_ff", out |-> ComputeFF(raw)]
    /\ UNCHANGED <<raw, cacheVars, reportVars>>

InitFF ==
    /\ InitCache /\ IdleReport
    /\ \E t \in TotalsGrid \cup TotalsPlayed, form \in {"turnovers", "totalTurnovers"} :
          raw = TeamStats(form, t)
    /\ coerced = NoCoercion

NextFF == CallComputeFF

SpecFF == InitFF /\ [][NextFF]_vars

----------------------------------------------------------------------------
(* _grade_players                                                          *)

\* the value of a decimal digit, -1 for any other character
DigitOf(c) ==
    CASE c = "0" -> 0 [] c = "1" -> 1 [] c = "2" -> 2 [] c = "3" -> 3
      [] c = "4" -> 4 [] c = "5" -> 5 [] c = "6" -> 6 [] c = "7" -> 7
      [] c = "8" -> 8 [] c = "9" -> 9 [] OTHER -> -1

\* str.replace(old, new) for single characters
PyReplace(s, old, new) == [i \in 1..Len(s) |-> IF s[i] = old THEN new ELSE s[i]]

\* the number written by a sequence of digits
RECURSIVE DigitsValue(_)
DigitsValue(ds) ==
    IF Len(ds) = 0 THEN 0
    ELSE 10 * DigitsValue(SubSeq(ds, 1, Len(ds) - 1)) + DigitOf(ds[Len(ds)])

\* float(s) of a string: digits with at most one decimal point (at least one
\* digit), or "nan"; anything else raises ValueError. The value is kept to
\* the hundredth.
ParseFloat(s) ==
    LET dots == {i \in 1..Len(s) : s[i] = "."}
        digits == {i \in 1..Len(s) : DigitOf(s[i]) >= 0}
        dot == IF dots = {} THEN Len(s) + 1 ELSE CHOOSE i \in dots : TRUE
        whole == SubSeq(s, 1, dot - 1)
        frac == SubSeq(s, dot + 1, Len(s))
        hundredths == IF Len(frac) = 0 THEN 0
                      ELSE IF Len(frac) = 1 THEN 10 * DigitOf(frac[1])
                      ELSE 10 * DigitOf(frac[1]) + DigitOf(frac[2])
    IN  IF s = <<"n", "a", "n">> THEN Ok(FNaN)
        ELSE IF Cardinality(dots) <= 1 /\ digits # {}
                /\ dots \cup digits = 1..Len(s)
        THEN Ok(Fl(100 * DigitsValue(whole) + hundredths))
        ELSE Raise("ValueError")

\* _safe_float(str(row.get("MIN", "0")).replace(":", "."))
Minutes(row) ==
    LET r == ParseFloat(PyReplace(PyStr(SeriesGet(row, "MIN", Str(<<"0">>))), ":", "."))
    IN  IF r.exc \in {"TypeError", "ValueError"} THEN Ok(Fl(0)) ELSE r

\* `x < k` on a float and a whole number: false for nan
FloatLt(f, k) == ~f.nan /\ f.n < H(k)

\* The code computes eff in doubles. Where the exact quotient meets a grade
\* cutoff the double may lie just below it; among the player rows of this
\* model it does so for these <<mins, pts, ast, reb, tov>> (in hundredths):
\* (0 + 0.7 * 6 + 0.5 * 0 - 1) / 8 * 40 is 15.999999999999996.
EffDoubleShort == { <<800, 0, 600, 0, 100>> }

\* eff, as the exact quotient num/den (den > 0) and whether its double falls
\* short of it: (pts + 0.7 * ast + 0.5 * reb - tov) / mins * 40 if mins > 0 else 0
Efficiency(mins, pts, ast, reb, tov) ==
    IF mins.nan \/ mins.n <= 0 THEN [nan |-> FALSE, num |-> 0, den |-> 1, short |-> FALSE]
    ELSE IF pts.nan \/ ast.nan \/ reb.nan \/ tov.nan
    THEN [nan |-> TRUE, num |-> 0, den |-> 1, short |-> FALSE]
    ELSE [nan |-> FALSE, num |-> 4 * (10 * pts.n + 7 * ast.n + 5 * reb.n - 10 * tov.n),
          den |-> mins.n,
          short |-> <<mins.n, pts.n, ast.n, reb.n, tov.n>> \in EffDoubleShort]

\* `eff >= k`: false for nan
EffGe(eff, k) ==
    /\ ~eff.nan
    /\ \/ eff.num > k * eff.den
       \/ eff.num = k * eff.den /\ ~eff.short

\* the if/elif chain of cutoffs
Grade(eff) ==
    IF EffGe(eff, 28) THEN "A+"
    ELSE IF EffGe(eff, 22) THEN "A"
    ELSE IF EffGe(eff, 16) THEN "B"
    ELSE IF EffGe(eff, 10) THEN "C"
    ELSE IF EffGe(eff, 5) THEN "D"
    ELSE "F"

\* f"{ts_pct:.1%}" if ts_pct else the dash placeholder, with
\* ts_pct = pts / (2 * fga) if fga else 0: the percentage in tenths
TsCell(pts, fga) ==
    IF ~fga.nan /\ fga.n = 0 THEN [text |-> "dash", n |-> 0]
    ELSE IF fga.nan \/ pts.nan THEN [text |-> "nan%", n |-> 0]
    ELSE IF pts.n = 0 THEN [text |-> "dash", n |-> 0]
    ELSE [text |-> "pct", n |-> PyRound(pts.n * 1000, 2 * fga.n)]

\* f"{eff:.1f}", in tenths
EffCell(eff) ==
    IF eff.nan THEN [text |-> "nan", n |-> 0]
    ELSE [text |-> "num", n |-> PyRound(10 * eff.num, eff.den)]

\* one pass of the loop body: the reads of a row, whether it is skipped, and
\* the dict appended to grades
GradeRow(row) ==
    LET mins == Minutes(row)
        pts == SafeFloat(SeriesGet(row, "PTS", Num(0)))
        ast == SafeFloat(SeriesGet(row, "AST", Num(0)))
        reb == SafeFloat(SeriesGet(row, "REB", Num(0)))
        tov == SafeFloat(SeriesGet(row, "TO", SeriesGet(row, "TOV", Num(0))))
        fga == SafeFloat(SeriesGet(row, "FGA", Num(0)))
        fgm == SafeFloat(SeriesGet(row, "FGM", Num(0)))
        eff == Efficiency(mins.val, pts.val, ast.val, reb.val, tov.val)
    IN  [exc |-> FirstExc(<<mins, pts, ast, reb, tov, fga, fgm>>),
         skip |-> FloatLt(mins.val, 5),
         grade |-> [Player |-> SeriesGet(row, "name", Str(<<>>)),
                    POS |-> SeriesGet(row, "position", Str(<<>>)),
                    MIN |-> Fmt0(mins.val),
                    PTS |-> Fmt0(pts.val),
                    AST |-> Fmt0(ast.val),
                    REB |-> Fmt0(reb.val),
                    TO |-> Fmt0(tov.val),
                    TS |-> TsCell(pts.val, fga.val),
                    Eff40 |-> EffCell(eff),
                    Grade |-> Grade(eff)]]

\* the columns of the graded table
GradeCols == {"Player", "POS", "MIN", "PTS", "AST", "REB", "TO", "TS%", "Eff/40", "Grade"}

\* _grade_players(players_df): the rows that are not skipped, in input order;
\* pd.DataFrame() for an empty input and pd.DataFrame([]) when every row is skipped
GradePlayers(players_df) ==
    IF FrameEmpty(players_df) THEN [exc |-> "none", df |-> EmptyFrame]
    ELSE LET passes == [i \in 1..Len(players_df.rows) |-> GradeRow(players_df.rows[i])]
             grades == SelectSeq(passes, LAMBDA p : ~p.skip)
             rows == [i \in 1..Len(grades) |-> grades[i].grade]
         IN  IF FirstExc(passes) # "none" THEN [exc |-> FirstExc(passes), df |-> EmptyFrame]
             ELSE IF Len(rows) = 0 THEN [exc |-> "none", df |-> EmptyFrame]
             ELSE [exc |-> "none", df |-> DataFrame(GradeCols, rows)]

----------------------------------------------------------------------------
(* _build_postgame_narrative                                               *)

\* `a > b` on two four-factor values, either of which may be nan
FfGt(a, a_nan, b, b_nan) == ~a_nan /\ ~b_nan /\ a > b

\* One-decimal floats are doubles, and the difference of two of them that are
\* exactly thr tenths apart can fall short of thr/10. For values in
\* -100.0..300.0 and thr in {50, 80} it does so exactly when the smaller one,
\* lo (in tenths), has the residue e[2] modulo 5 and lies within thr - 5 below e[1].
GapEnds ==
    { <<-641, 4>>, <<-323, 2>>, <<-164, 1>>, <<-82, 3>>, <<77, 2>>,
      <<159, 4>>, <<318, 3>>, <<636, 1>>, <<1277, 2>>, <<2559, 4>> }

DoubleGapShort(lo, thr) ==
    \E e \in GapEnds : lo \in (e[1] - thr + 5)..e[1] /\ lo % 5 = e[2]

\* `abs(a - b) >= thr` on two one-decimal floats, all in tenths
GapAtLeast(a, a_nan, b, b_nan, thr) ==
    LET lo == IF a < b THEN a ELSE b
        hi == IF a < b THEN b ELSE a
    IN  /\ ~a_nan /\ ~b_nan
        /\ IF hi - lo = thr THEN ~DoubleGapShort(lo, thr) ELSE hi - lo > thr

Max(a, b) == IF a > b THEN a ELSE b
Min(a, b) == IF a < b THEN a ELSE b

\* sum(1 for v in ff_battle.values() if "SJU" in v[0])
SjuWins(ff_battle) == Cardinality({k \in DOMAIN ff_battle : ff_battle[k][1] = "SJU"})

\* the opening element of lines: result, score, margin and factors won
LeadLine(sju_team, sju_score, opp_score, ff_battle) ==
    [kind |-> "lead", team |-> sju_team,
     result |-> IF FfGt(sju_score.n, sju_score.nan, opp_score.n, opp_score.nan)
                THEN "won" ELSE "lost",
     sju_score |-> sju_score, opp_score |-> opp_score,
     margin |-> IF sju_score.nan \/ opp_score.nan THEN FNaN
                ELSE Fl(IF sju_score.n > opp_score.n THEN sju_score.n - opp_score.n
                        ELSE opp_score.n - sju_score.n),
     sju_wins |-> SjuWins(ff_battle)]

\* the shooting sentence, appended when abs(efg_diff) >= 5
ShootingLine(sju_team, opp_team, sju_ff, opp_ff) ==
    [kind |-> "shooting",
     leader |-> IF sju_ff.efg_pct > opp_ff.efg_pct THEN sju_team ELSE opp_team,
     high |-> Max(sju_ff.efg_pct, opp_ff.efg_pct),
     low |-> Min(sju_ff.efg_pct, opp_ff.efg_pct),
     gap |-> Max(sju_ff.efg_pct, opp_ff.efg_pct) - Min(sju_ff.efg_pct, opp_ff.efg_pct)]

\* the rebounding sentence, appended when abs(reb_diff) >= 8
ReboundingLine(sju_team, opp_team, sju_ff, opp_ff) ==
    [kind |-> "rebounding",
     leader |-> IF sju_ff.or_pct > opp_ff.or_pct THEN sju_team ELSE opp_team,
     high |-> Max(sju_ff.or_pct, opp_ff.or_pct),
     low |-> Min(sju_ff.or_pct, opp_ff.or_pct)]

\* the turnover sentence, appended when abs(to_diff) >= 5
TurnoverLine(sju_team, opp_team, sju_ff, opp_ff) ==
    [kind |-> "turnovers",
     loser |-> IF sju_ff.to_pct > opp_ff.to_pct THEN sju_team ELSE opp_team,
     high |-> Max(sju_ff.to_pct, opp_ff.to_pct),
     low |-> Min(sju_ff.to_pct, opp_ff.to_pct)]

\* the mutated closing sentence: a tie is labelled an SJU advantage
PppLineTieToSju(opp_team, sju_ff, opp_ff) ==
    [kind |-> "ppp", sju |-> sju_ff.ppp, opp_team |-> opp_team, opp |-> opp_ff.ppp,
     label |-> IF sju_ff.ppp >= opp_ff.ppp THEN "SJU advantage" ELSE "opponent advantage",
     diff |-> Max(sju_ff.ppp, opp_ff.ppp) - Min(sju_ff.ppp, opp_ff.ppp)]

\* the closing sentence: both PPP values, the label and abs(ppp_diff)
PppLine(opp_team, sju_ff, opp_ff) ==
    [kind |-> "ppp", sju |-> sju_ff.ppp, opp_team |-> opp_team, opp |-> opp_ff.ppp,
     label |-> IF sju_ff.ppp > opp_ff.ppp THEN "SJU advantage" ELSE "opponent advantage",
     diff |-> Max(sju_ff.ppp, opp_ff.ppp) - Min(sju_ff.ppp, opp_ff.ppp)]

\* " ".join(lines): the sentences with one space between neighbours
JoinLines(lines) ==
    [i \in 1..(2 * Len(lines) - 1) |-> IF i % 2 = 1 THEN lines[(i + 1) \div 2] ELSE " "]

\* _build_postgame_narrative(sju_team, opp_team, sju_score, opp_score, sju_ff, opp_ff, ff_battle)
BuildPostgameNarrative(sju_team, opp_team, sju_score, opp_score, sju_ff, opp_ff, ff_battle) ==
    LET OrNan(ff) == "or_pct" \in ff.nans
        shooting == IF GapAtLeast(sju_ff.efg_pct, FALSE, opp_ff.efg_pct, FALSE, 50)
                    THEN <<ShootingLine(sju_team, opp_team, sju_ff, opp_ff)>> ELSE <<>>
        rebounding == IF GapAtLeast(sju_ff.or_pct, OrNan(sju_ff), opp_ff.or_pct, OrNan(opp_ff), 80)
                      THEN <<ReboundingLine(sju_team, opp_team, sju_ff, opp_ff)>> ELSE <<>>
        turnovers == IF GapAtLeast(sju_ff.to_pct, FALSE, opp_ff.to_pct, FALSE, 50)
                     THEN <<TurnoverLine(sju_team, opp_team, sju_ff, opp_ff)>> ELSE <<>>
    IN  JoinLines(<<LeadLine(sju_team, sju_score, opp_score, ff_battle)>>
                  \o shooting \o rebounding \o turnovers
                  \o <<PppLine(opp_team, sju_ff, opp_ff)>>)

----------------------------------------------------------------------------
(* generate_postgame_report                                                *)

\* the first of "home", "away" that is in the box and whose name contains
\* sju_team_name, case-insensitively; "none" for Python's None
SjuSide(box, sju_team_name) ==
    LET Named(side) == /\ side \in DOMAIN box
                       /\ PyIn(PyLower(sju_team_name), PyLower(box[side].name))
    IN  IF Named("home") THEN "home" ELSE IF Named("away") THEN "away" ELSE "none"

\* an opponent side that falls to "away" when the tracked side was not found
OppSideAwayWhenAbsent(sju_side) == IF sju_side = "away" THEN "home" ELSE "away"

\* opp_side = "away" if sju_side == "home" else "home"
OppSide(sju_side) == IF sju_side = "home" THEN "away" ELSE "home"

\* the mutated comparison: a tie goes to the tracked side
FactorWinnerTieToSju(sju_val, sju_nan, opp_val, opp_nan, higher_is_better) ==
    IF sju_nan \/ opp_nan THEN "OPP"
    ELSE IF higher_is_better THEN (IF sju_val >= opp_val THEN "SJU" ELSE "OPP")
    ELSE (IF sju_val <= opp_val THEN "SJU" ELSE "OPP")

\* _factor_winner(sju_val, opp_val, higher_is_better): the label without its tick
FactorWinner(sju_val, sju_nan, opp_val, opp_nan, higher_is_better) ==
    IF higher_is_better
    THEN (IF FfGt(sju_val, sju_nan, opp_val, opp_nan) THEN "SJU" ELSE "OPP")
    ELSE (IF FfGt(opp_val, opp_nan, sju_val, sju_nan) THEN "SJU" ELSE "OPP")

\* ff_battle: factor -> <<winner, <<tracked value, opponent value>> >>
FfBattle(sju_ff, opp_ff) ==
    LET OrNan(ff) == "or_pct" \in ff.nans
    IN  [eFG |-> <<FactorWinner(sju_ff.efg_pct, FALSE, opp_ff.efg_pct, FALSE, TRUE),
                   <<sju_ff.efg_pct, opp_ff.efg_pct>> >>,
         TO |-> <<FactorWinner(sju_ff.to_pct, FALSE, opp_ff.to_pct, FALSE, FALSE),
                  <<sju_ff.to_pct, opp_ff.to_pct>> >>,
         OR |-> <<FactorWinner(sju_ff.or_pct, OrNan(sju_ff), opp_ff.or_pct, OrNan(opp_ff), TRUE),
                  <<sju_ff.or_pct, opp_ff.or_pct>> >>,
         FTRate |-> <<FactorWinner(sju_ff.ft_rate, FALSE, opp_ff.ft_rate, FALSE, TRUE),
                      <<sju_ff.ft_rate, opp_ff.ft_rate>> >>]

\* the mutated result field: equal scores are reported as a win
ResultTieWins(sju_score, opp_score) ==
    IF ~sju_score.nan /\ ~opp_score.nan /\ sju_score.n >= opp_score.n THEN "W" ELSE "L"

\* "W" if sju_score > opp_score else "L"
Result(sju_score, opp_score) ==
    IF FfGt(sju_score.n, sju_score.nan, opp_score.n, opp_score.nan) THEN "W" ELSE "L"

\* the empty dict
EmptyDict == [k \in {} |-> None]

\* a guard that lets every box through
NoBoxNever(box) == FALSE

\* `not box`: the dict is empty
NoBox(box) == DOMAIN box = {}

\* generate_postgame_report(kp, game_id, sju_team_name); fetch is what
\* espn.get_box_score(game_id) does
PostgameReport(fetch, game_id, sju_team_name) ==
    IF fetch.exc # "none" THEN Raised("postgame", fetch.exc, "get_box_score")
    ELSE IF NoBox(fetch.box) THEN Raised("postgame", "ValueError", "box")
    ELSE
    LET box == fetch.box
        sju_side == SjuSide(box, sju_team_name)
        opp_side == OppSide(sju_side)
        sju_data == DictGet(box, sju_side, EmptyDict)
        opp_data == DictGet(box, opp_side, EmptyDict)
        sju_ff == ComputeFF(DictGet(sju_data, "team_stats", EmptyDict))
        opp_ff == ComputeFF(DictGet(opp_data, "team_stats", EmptyDict))
        ff_battle == FfBattle(sju_ff.rec, opp_ff.rec)
        player_grades == GradePlayers(DictGet(sju_data, "players", EmptyFrame))
        sju_score == SafeFloat(DictGet(sju_data, "score", Num(0)))
        opp_score == SafeFloat(DictGet(opp_data, "score", Num(0)))
        sju_team == DictGet(sju_data, "name", sju_team_name)
        opp_team == DictGet(opp_data, "name", <<"O", "p", "p", "o", "n", "e", "n", "t">>)
        steps == <<sju_ff, opp_ff, player_grades, sju_score, opp_score,
                   PyInt(sju_score.val), PyInt(opp_score.val)>>
        stages == <<"_compute_ff", "_compute_ff", "_grade_players", "_safe_float",
                    "_safe_float", "int", "int">>
    IN  IF FirstExc(steps) # "none"
        THEN Raised("postgame", FirstExc(steps), stages[FirstBad(steps)])
        ELSE Returned("postgame",
                 [game_id |-> game_id,
                  sju_team |-> sju_team,
                  opp_team |-> opp_team,
                  sju_score |-> PyInt(sju_score.val).val,
                  opp_score |-> PyInt(opp_score.val).val,
                  result |-> Result(sju_score.val, opp_score.val),
                  sju_ff |-> sju_ff.rec,
                  opp_ff |-> opp_ff.rec,
                  ff_battle |-> ff_battle,
                  player_grades |-> player_grades.df,
                  narrative |-> BuildPostgameNarrative(sju_team, opp_team, sju_score.val,
                                    opp_score.val, sju_ff.rec, opp_ff.rec, ff_battle)])

----------------------------------------------------------------------------
(* Box scores, narrative inputs and player tables                          *)

\* pd.DataFrame(player_rows): the columns are the union of the rows' keys and
\* a row lacking a column holds nan there
PlayersFrame(player_rows) ==
    LET cols == UNION {DOMAIN player_rows[i] : i \in 1..Len(player_rows)}
    IN  DataFrame(cols, [i \in 1..Len(player_rows) |->
                            [c \in cols |-> SeriesGet(player_rows[i], c, NaNCell)]])

\* a player's row of the box score: the statistics are the display strings
\* zipped with their headers; line is <<PTS, AST, REB, TO>>
PlayerRow(name, min_text, line) ==
    [name |-> Str(name), position |-> Str(<<"G">>), MIN |-> Str(min_text),
     PTS |-> NumStr(H(line[1])), AST |-> NumStr(H(line[2])),
     REB |-> NumStr(H(line[3])), TO |-> NumStr(H(line[4]))]

\* the same row of a feed that also carries field-goal attempts and makes
PlayerRowFG(name, min_text, line, fga, fgm) ==
    PlayerRow(name, min_text, line) @@ [FGA |-> NumStr(H(fga)), FGM |-> NumStr(H(fgm))]

\* a row whose minutes cell is absent from the feed
PlayerRowNoMin(name, line) ==
    [k \in DOMAIN PlayerRow(name, <<>>, line) \ {"MIN"} |-> PlayerRow(name, <<>>, line)[k]]

\* the row of an athlete listed without statistics (did not play): stats is []
PlayerRowDnp(name) == [name |-> Str(name), position |-> Str(<<"G">>)]

PlayerRows ==
    { PlayerRow(<<"a">>, <<"3", "0", ":", "3", "0">>, <<21, 0, 0, 0>>),
      PlayerRowFG(<<"b">>, <<"3", "0", ":", "0", "0">>, <<20, 7, 5, 2>>, 12, 8),
      PlayerRow(<<"c">>, <<"4", ":", "5", "9">>, <<10, 0, 0, 0>>),
      PlayerRowFG(<<"d">>, <<"5", ":", "0", "0">>, <<0, 0, 0, 0>>, 3, 0),
      PlayerRow(<<"e">>, <<"3", "0">>, <<15, 3, 4, 1>>),
      PlayerRow(<<"f">>, <<"1", "2", ":", "4", "5">>, <<3, 1, 2, 2>>),
      PlayerRow(<<"g">>, <<"-", "-">>, <<0, 0, 0, 0>>),
      PlayerRowNoMin(<<"h">>, <<4, 1, 1, 0>>),
      PlayerRowDnp(<<"j">>),
      PlayerRow(<<"k">>, <<"8">>, <<0, 6, 0, 1>>),
      PlayerRow(<<"l">>, <<"3", "0">>, <<21, 0, 0, 0>>),
      PlayerRow(<<"m">>, <<"2", "0">>, <<11, 0, 0, 0>>),
      PlayerRow(<<"n">>, <<"2", "0">>, <<5, 0, 0, 0>>),
      PlayerRow(<<"o">>, <<"4", "0">>, <<16, 0, 0, 0>>),
      PlayerRow(<<"p">>, <<"4", "0">>, <<5, 0, 0, 0>>),
      PlayerRowFG(<<"i">>, <<"3", "5", ":", "1", "0">>, <<7, 0, 0, 0>>, 0, 0) }

\* the player tables: no player, one player, two players
PlayerTables ==
    {EmptyFrame} \cup {PlayersFrame(<<r>>) : r \in PlayerRows}
        \cup {PlayersFrame(<<r, q>>) : r \in PlayerRows, q \in PlayerRows}

\* a call of _grade_players on a side's players table
CallGradePlayers ==
    /\ coerced' = [fn |-> "_grade_players", out |-> GradePlayers(raw)]
    /\ UNCHANGED <<raw, cacheVars, reportVars>>

InitGrades ==
    /\ InitCache /\ IdleReport
    /\ raw \in PlayerTables
    /\ coerced = NoCoercion

NextGrades == CallGradePlayers

SpecGrades == InitGrades /\ [][NextGrades]_vars

\* four-factor records as _compute_ff returns them, reduced to the figures the
\* narrative reads; pairs are <<tracked side, opponent>>
EfgPairs == { <<550, 420>>, <<353, 303>>, <<303, 353>>, <<500, 450>>, <<480, 480>>, <<449, 400>> }
OrPairs == { <<286, 286>>, <<243, 323>>, <<400, 320>>, <<300, 379>> }
ToPairs == { <<160, 160>>, <<124, 174>>, <<200, 150>>, <<150, 199>> }
PppPairs == { <<1138, 1050>>, <<1000, 1000>>, <<900, 1100>> }
ScorePairs == { <<78, 70>>, <<70, 70>>, <<65, 70>> }

FfOf(efg, to, or, ft, ppp) ==
    [efg_pct |-> efg, to_pct |-> to, or_pct |-> or, ft_rate |-> ft, ppp |-> ppp, nans |-> {}]

\* the arguments generate_postgame_report hands to the narrative builder
NarrativeArgs(e, o, t, p, s) ==
    [sju_team |-> Duke, opp_team |-> Kansas,
     sju_score |-> Fl(H(s[1])), opp_score |-> Fl(H(s[2])),
     sju_ff |-> FfOf(e[1], t[1], o[1], 237, p[1]),
     opp_ff |-> FfOf(e[2], t[2], o[2], 237, p[2]),
     ff_battle |-> FfBattle(FfOf(e[1], t[1], o[1], 237, p[1]), FfOf(e[2], t[2], o[2], 237, p[2]))]

\* a call of _build_postgame_narrative
CallBuildPostgameNarrative ==
    /\ coerced' = [fn |-> "_build_postgame_narrative",
                   out |-> BuildPostgameNarrative(raw.sju_team, raw.opp_team, raw.sju_score,
                               raw.opp_score, raw.sju_ff, raw.opp_ff, raw.ff_battle)]
    /\ UNCHANGED <<raw, cacheVars, reportVars>>

InitNarrative ==
    /\ InitCache /\ IdleReport
    /\ \E e \in EfgPairs, o \in OrPairs, t \in ToPairs, p \in PppPairs, s \in ScorePairs :
          raw = NarrativeArgs(e, o, t, p, s)
    /\ coerced = NoCoercion

NextNarrative == CallBuildPostgameNarrative

SpecNarrative == InitNarrative /\ [][NextNarrative]_vars

\* totals of the two sides of a game, <<FGM, FGA, 3PM, FTM, FTA, OREB, DREB, TOV>>
GameTotals ==
    { <<28, 59, 8, 14, 18, 10, 25, 11>>,
      <<25, 62, 6, 10, 15, 8, 27, 14>>,
      <<6, 17, 0, 3, 4, 2, 9, 5>>,
      <<10, 33, 0, 6, 8, 4, 12, 7>>,
      <<28, 59, 8, 10, 15, 12, 25, 11>>,
      <<0, 0, 0, 0, 0, 0, 0, 0>> }

\* header scores as ESPN gives them: display strings, "" when absent
Scores == { NumStr(H(78)), NumStr(H(70)), Str(<<>>) }

\* one side of the dict get_box_score returns
BoxSide(name, t, score, players) ==
    [name |-> name, players |-> players, team_stats |-> TeamStats("turnovers", t),
     score |-> score]

\* the player tables of the tracked side
GamePlayers ==
    { EmptyFrame,
      PlayersFrame(<<PlayerRow(<<"a">>, <<"3", "0", ":", "3", "0">>, <<21, 0, 0, 0>>),
                     PlayerRow(<<"c">>, <<"4", ":", "5", "9">>, <<10, 0, 0, 0>>)>>) }

\* the box scores get_box_score returns: both sides, one side alone
\* (one team in the summary) and the empty dict
Boxes ==
    { [home |-> BoxSide(Duke, t, s, p), away |-> BoxSide(Kansas, u, v, EmptyFrame)] :
          t \in GameTotals, u \in GameTotals, s \in Scores, v \in Scores, p \in GamePlayers }
    \cup { [home |-> BoxSide(Kansas, t, s, EmptyFrame), away |-> BoxSide(Duke, u, v, p)] :
          t \in GameTotals, u \in GameTotals, s \in Scores, v \in Scores, p \in GamePlayers }
    \cup { [home |-> BoxSide(Kansas, t, NumStr(H(70)), EmptyFrame)] : t \in GameTotals }
    \cup { [away |-> BoxSide(Kansas, t, NumStr(H(70)), EmptyFrame)] : t \in GameTotals }
    \cup { EmptyDict }

\* what espn.get_box_score does: raises ConnectionError or returns a box
BoxFetches ==
    { [exc |-> "none", box |-> b] : b \in Boxes }
        \cup { [exc |-> "ConnectionError", box |-> EmptyDict] }

\* generate_postgame_report as one step of the program
GeneratePostgameReport ==
    /\ result' = PostgameReport(feed.boxscore, req.game_id, req.sju_team_name)
    /\ UNCHANGED <<feed, archive, req, cacheVars, coerceVars>>

InitPostgame ==
    /\ InitCache /\ IdleCoerce
    /\ \E f \in BoxFetches, n \in {Duke, DukeLower, Unc} :
          /\ feed = [boxscore |-> f]
          /\ req = [game_id |-> 1, sju_team_name |-> n]
    /\ archive = <<>>
    /\ result = NoResult

NextPostgame == GeneratePostgameReport

SpecPostgame == InitPostgame /\ [][NextPostgame]_vars

----------------------------------------------------------------------------
(* The prediction feed of a date, as get_fanmatch returns it               *)

\* a fixture of the feed: its teams, and a prediction that tells it apart
FixtureRow(home, visitor, pred) ==
    [c \in TableCols("fanmatch") |->
        IF c = "Home" THEN Str(home)
        ELSE IF c = "Visitor" THEN Str(visitor)
        ELSE Num(H(pred))]

\* the fixtures of a date among three teams; the prediction names the fixture
Fixtures ==
    { FixtureRow(Duke, Kansas, 71), FixtureRow(Duke, Unc, 72), FixtureRow(Unc, Kansas, 73),
      FixtureRow(Kansas, Duke, 74), FixtureRow(Unc, Duke, 75), FixtureRow(Kansas, Unc, 76) }

\* the feeds: no fixture, one fixture, two fixtures
FixtureFeeds ==
    {EmptyFrame} \cup {DataFrame(TableCols("fanmatch"), <<f>>) : f \in Fixtures}
        \cup {DataFrame(TableCols("fanmatch"), <<fg[1], fg[2]>>) :
                  fg \in {p \in Fixtures \X Fixtures : p[1] # p[2]}}

InitFanmatch ==
    /\ InitCache /\ IdleCoerce
    /\ \E fm \in {Gives(df) : df \in FixtureFeeds} \cup {Fails("ConnectionError")},
          h \in {Duke, DukeLower} :
          /\ feed = [BaseFeed EXCEPT !["fanmatch"] = fm]
          /\ req = [home |-> h, away |-> Kansas, delta |-> 0]
    /\ archive = BaseArchive
    /\ result = NoResult

NextFanmatch == GenerateScoutReport

SpecFanmatch == InitFanmatch /\ [][NextFanmatch]_vars

----------------------------------------------------------------------------
(* KenPomClient.find_team_id                                                *)

\* re.search(pat, text) for a pattern of literal characters and ".": Series.str.contains
\* takes its argument as a regular expression, in which "." stands for any character
ReSearch(pat, text) ==
    \E i \in 0..(Len(text) - Len(pat)) :
        \A j \in 1..Len(pat) : pat[j] = "." \/ text[i + j] = pat[j]

\* teams["TeamName"].str.lower().str.contains(pat, na=False) on one cell:
\* a cell that is no string is missing after .str.lower(), and counts as no match
StrContains(cell, pat) == cell.kind = "str" /\ ReSearch(pat, PyLower(cell.s))

\* int(matches.iloc[0]["TeamID"])
TeamIdOf(row) ==
    LET f == PyFloat(row["TeamID"])
    IN  IF f.exc # "none" THEN [exc |-> f.exc, val |-> 0] ELSE PyInt(f.val)

\* find_team_id(name): the TeamID of the first row whose name matches
FindTeamId(fetch, name) ==
    IF fetch.exc # "none" THEN Raised("find_team_id", fetch.exc, "get_teams")
    ELSE IF "TeamName" \notin fetch.df.cols THEN Raised("find_team_id", "KeyError", "TeamName")
    ELSE LET teams == fetch.df
             mask == {i \in 1..Len(teams.rows) :
                         StrContains(teams.rows[i]["TeamName"], PyLower(name))}
         IN  IF mask = {} THEN Raised("find_team_id", "ValueError", "matches")
             ELSE IF "TeamID" \notin teams.cols
                  THEN Raised("find_team_id", "KeyError", "TeamID")
             ELSE LET id == TeamIdOf(teams.rows[CHOOSE i \in mask : \A j \in mask : i <= j])
                  IN  IF id.exc # "none" THEN Raised("find_team_id", id.exc, "TeamID")
                      ELSE Returned("find_team_id", [team_id |-> id.val])

\* the teams dataset: a team spelt with a full stop, and a row without a name
UDotC == <<"U", ".", "C">>
TeamsCols == {"TeamName", "TeamID"}
TeamsRow(name, id) == [c \in TeamsCols |-> IF c = "TeamName" THEN name ELSE Num(H(id))]
TeamsRows == { TeamsRow(Str(Duke), 1), TeamsRow(Str(Unc), 2), TeamsRow(Str(UDotC), 3),
               TeamsRow(None, 4) }

\* the datasets: no row (pd.DataFrame() of an empty payload), up to three rows in any order
TeamsFrames ==
    {EmptyFrame} \cup {DataFrame(TeamsCols, <<r>>) : r \in TeamsRows}
        \cup {DataFrame(TeamsCols, <<p[1], p[2]>>) :
                  p \in {q \in TeamsRows \X TeamsRows : q[1] # q[2]}}
        \cup {DataFrame(TeamsCols, <<p[1], p[2], p[3]>>) :
                  p \in {q \in TeamsRows \X TeamsRows \X TeamsRows :
                             q[1] # q[2] /\ q[1] # q[3] /\ q[2] # q[3]}}

TeamQueries == {Duke, DukeLower, Kansas, UDotC, <<"U">>}

CallFindTeamId ==
    /\ result = NoResult
    /\ result' = FindTeamId(feed.teams, req.name)
    /\ UNCHANGED <<cacheVars, feed, archive, req, coerceVars>>

InitTeams ==
    /\ InitCache /\ IdleCoerce
    /\ \E t \in {Gives(df) : df \in TeamsFrames} \cup {Fails("ConnectionError")},
          n \in TeamQueries :
          /\ feed = [teams |-> t]
          /\ req = [name |-> n]
    /\ archive = <<>>
    /\ result = NoResult

NextTeams == CallFindTeamId

SpecTeams == InitTeams /\ [][NextTeams]_vars

----------------------------------------------------------------------------
(* KenPomClient instances of a session: app._get_kp and the shared _cache   *)

MaxClients == 2
ApiKeys == {"key1", "key2"}

\* st.session_state before any client was built
NoSession == [kp_client |-> 0, kp_key_used |-> "", built |-> 0]

\* what the last call through a KenPomClient was, and who stored each entry
NoOwner == [client |-> 0, key |-> ""]
NoKpCall == [op |-> "none", by |-> NoOwner,
             stored_by |-> [id \in CacheIds |-> NoOwner]]

\* _get_kp() with the session's key k: a new KenPomClient(k) unless the
\* session holds a client built with that very key
GetKp(k) ==
    /\ IF req.kp_client = 0 \/ req.kp_key_used # k
       THEN /\ req.built < MaxClients
            /\ req' = [kp_client |-> req.built + 1, kp_key_used |-> k,
                       built |-> req.built + 1]
       ELSE UNCHANGED req
    /\ UNCHANGED <<cacheVars, feed, archive, result, coerceVars>>

\* a cached method of the session's client, e.g. kp.get_ratings(): _ttl_get
\* under a key made of the dataset name and the query parameters
KpGet(id, outcome) ==
    /\ req.kp_client # 0
    /\ id[1] = "kenpom"
    /\ TtlGetBody(id, outcome)
    /\ LET me == [client |-> req.kp_client, key |-> req.kp_key_used]
       IN  result' = [op |-> "kp_get", by |-> me,
                      stored_by |-> IF cache'[id] # cache[id]
                                    THEN [result.stored_by EXCEPT ![id] = me]
                                    ELSE result.stored_by]
    /\ UNCHANGED <<now, feed, archive, req, coerceVars>>

\* kp.clear_cache() on the session's client
KpClearCache ==
    /\ req.kp_client # 0
    /\ ClearCache("kenpom")

\* a cached call of the game-event provider (here its fetches succeed)
EspnGet(id, outcome) ==
    /\ id[1] = "espn"
    /\ TtlGet(id, outcome)

InitClients ==
    /\ InitCache /\ IdleCoerce
    /\ feed = <<>>
    /\ archive = <<>>
    /\ req = NoSession
    /\ result = NoKpCall

NextClients ==
    \/ \E k \in ApiKeys : GetKp(k)
    \/ \E id \in CacheIds, o \in Outcomes : KpGet(id, o)
    \/ KpClearCache
    \/ \E id \in CacheIds, o \in {v \in Values : v = MaxValue} : EspnGet(id, o)
    \/ Tick

SpecClients == InitClients /\ [][NextClients]_vars

----------------------------------------------------------------------------
(* _build_efficiency_trend over a season: the days asked for, the archive   *)

MaxTrendDelta == 17

\* what get_archive may do for a day: the two teams' snapshot, a failure, no
\* data, a snapshot without the team, the team's row holding an odd cell
Snapshots ==
    { Gives(BaseFrame("archive")), Fails("ConnectionError"),
      Gives(ShapedFrame("archive", "empty", Duke, None)),
      Gives(ShapedFrame("archive", "nomatch", Duke, None)) }
    \cup { Gives(ShapedFrame("archive", "row", Duke, v)) : v \in {NaNCell, None, BigInt} }

\* a call of _build_efficiency_trend; requested is what the loop asks get_archive for
CallBuildEfficiencyTrend ==
    /\ result = NoResult
    /\ result' = Returned("trend",
                     [requested |-> SnapDays(req.delta),
                      rows |-> BuildEfficiencyTrend(archive, req.team, req.delta)])
    /\ UNCHANGED <<cacheVars, feed, archive, req, coerceVars>>

\* today is the day before the season start, or any day of the season; the
\* first snapshot and one other day are any of the snapshots
InitTrend ==
    /\ InitCache /\ IdleCoerce
    /\ feed = <<>>
    /\ \E d \in -1..MaxTrendDelta, day \in 0..MaxTrendDelta, s \in Snapshots, t \in Snapshots :
          /\ req = [team |-> Duke, delta |-> d]
          /\ archive = [x \in 0..MaxTrendDelta |->
                           IF x = day THEN s
                           ELSE IF x = 0 THEN t ELSE Gives(BaseFrame("archive"))]
    /\ result = NoResult

NextTrend == CallBuildEfficiencyTrend

SpecTrend == InitTrend /\ [][NextTrend]_vars

----------------------------------------------------------------------------
(* C1: TTL cache hit. A _ttl_get for a key whose stored entry is younger   *)
(* than its ttl (call time minus the entry's timestamp < ttl; the entry is *)
(* still there, so no clear_cache came in between) issues no fetch, raises *)
(* nothing, returns the stored value and leaves the entry as it was.       *)
TtlHitServesStored ==
    (last.op = "get" /\ last.prev.present /\ last.t - last.prev.ts < TtlOf(last.id))
        => /\ last.fetches = 0
           /\ ~last.raised
           /\ last.ret = last.prev.data
           /\ cache[last.id] = last.prev

\* a hit at a time strictly after the store, inside the window
TtlHitWitness ==
    /\ last.op = "get" /\ last.prev.present
    /\ last.t > last.prev.ts
    /\ last.t - last.prev.ts < TtlOf(last.id)
    /\ last.fetches = 0 /\ last.ret = last.prev.data

(* C2: TTL cache expiry. A _ttl_get for a key with no entry, or whose     *)
(* entry is at least ttl old, calls fetch exactly once; when the fetch     *)
(* returns, the call returns the fetched value and the entry becomes       *)
(* (fetched value, call time).                                             *)
TtlExpiryRefetches ==
    (last.op = "get" /\ (~last.prev.present \/ last.t - last.prev.ts >= TtlOf(last.id)))
        => /\ last.fetches = 1
           /\ ~last.raised =>
                /\ last.fetched \in Values
                /\ last.ret = last.fetched
                /\ cache[last.id] = Entry(last.fetched, last.t)

\* an entry aged exactly ttl is replaced by a different, newly fetched value
TtlExpiryWitness ==
    /\ last.op = "get" /\ last.prev.present
    /\ last.t - last.prev.ts = TtlOf(last.id)
    /\ last.fetches = 1 /\ ~last.raised
    /\ last.ret # last.prev.data
    /\ cache[last.id] = Entry(last.ret, last.t)

----------------------------------------------------------------------------
(* C3: provider failures and report generation.                            *)

ScoutDone == result.op = "scout"
SeasonDone == result.op = "season"
Failed(e) == feed[e].exc # "none"

\* the snapshot days generate_season_report asks the archive for
SnapSet == {SnapDays(req.delta)[k] : k \in 1..Len(SnapDays(req.delta))}

\* the error of the first failing fetch of a call sequence
FirstFetchError(seq) == FirstExc([i \in 1..Len(seq) |-> feed[seq[i]]])

\* C3 as stated: whenever any provider fetch issued during generate_scout_report
\* or generate_season_report fails (the fanmatch feed and the archive snapshots
\* included), the call raises that error instead of returning a report.
FetchFailureAlwaysRaised ==
    /\ ScoutDone /\ (\E e \in TeamTableSet \cup {"fanmatch"} : Failed(e))
          => result.exc \in FetchErrors
    /\ SeasonDone /\ ( \/ \E e \in Endpoints \ {"fanmatch"} : Failed(e)
                       \/ \E day \in SnapSet : archive[day].exc # "none" )
          => result.exc \in FetchErrors

\* C3 amended: a failing fetch of ratings, four factors, misc stats, point
\* distribution or height (and, in the season report, conference ratings) is
\* raised to the caller as the error of the first failing fetch, and nothing
\* else makes these calls raise on well-formed data; a failing fanmatch fetch
\* is caught and leaves the scout report's fanmatch dict empty, and a failing
\* archive snapshot is skipped, the trend keeping the rows of the other snapshots.
FetchFailureRaisedUnlessCaught ==
    /\ ScoutDone =>
          /\ result.exc = FirstFetchError(ScoutFetches)
          /\ result.exc # "none" => result.stage = "fetch"
          /\ result.exc = "none" /\ Failed("fanmatch") => result.report.fanmatch = <<>>
    /\ SeasonDone =>
          /\ result.exc = FirstFetchError(SeasonFetches)
          /\ result.exc # "none" => result.stage = "fetch"
          /\ result.exc = "none" =>
                Len(result.report.efficiency_trend)
                    = Cardinality({day \in SnapSet : archive[day].exc = "none"})

\* a scout report returned although the fanmatch fetch failed, after a season
\* report of the same feed would have skipped a failed snapshot
FetchFailureWitness ==
    /\ ScoutDone /\ result.exc = "none"
    /\ Failed("fanmatch")
    /\ \E day \in SnapSet : archive[day].exc # "none"

----------------------------------------------------------------------------
(* C4: normalisation on absent data.                                       *)

\* what table t of the feed looks like
TableEmpty(t) == feed[t].exc = "none" /\ feed[t].df = EmptyFrame
TableLacksTeam(t) ==
    feed[t].exc = "none" /\ feed[t].df = DataFrame(TableCols(t), <<TeamRow(t, Unc, NoVals)>>)
TableWellFormed(t) == feed[t] = BaseFeed[t]

\* data is at most absent: every table is well formed, empty, or lacks the team
OnlyAbsence ==
    \A t \in TeamTableSet : TableWellFormed(t) \/ TableEmpty(t) \/ TableLacksTeam(t)

\* every entry of a record read from a table without the team is the default
DefaultsWhereAbsent(fields, rec) ==
    \A i \in 1..Len(fields) :
        TableLacksTeam(fields[i][2]) =>
            rec[fields[i][1]] = IF fields[i][4] = "r" THEN 999 ELSE Fl(0)

\* C4 as stated: for every dataset the provider returns (an empty one included)
\* and every team name, building the overview, four-factors, shooting and height
\* records raises no error, and a team matching no row gets 0.0 in every numeric
\* field and 999 in every rank field.
NormalizationNeverRaises ==
    OnlyAbsence /\ (ScoutDone \/ SeasonDone) =>
        /\ result.exc = "none"
        /\ ScoutDone =>
              /\ DefaultsWhereAbsent(OverviewFields, result.report.home_overview)
              /\ DefaultsWhereAbsent(FFFields, result.report.home_ff)
              /\ DefaultsWhereAbsent(ShootingFields, result.report.home_shooting)
              /\ DefaultsWhereAbsent(HeightFields, result.report.home_height)

----------------------------------------------------------------------------
(* C5: rank coercion.                                                      *)

\* C5 as stated: the rank coercion int(_safe_float(row.get(field, 999))) raises
\* for no field value, NaN included, and yields exactly 999 when the field is
\* missing, null, or present but not parseable as a number.  (Integers beyond
\* the float range are left to C6.)
RankCoercionYieldsSentinel ==
    coerced.fn = "rank" /\ raw.kind # "bigint" =>
        /\ coerced.out.exc = "none"
        /\ raw.kind \in {"missing", "none", "str", "container"} => coerced.out.val = 999

----------------------------------------------------------------------------
(* C6: _safe_float.                                                        *)

\* C6 as stated: for every input (number, numeric string, non-numeric string,
\* None, container, arbitrarily large integer) _safe_float returns without
\* raising: the parsed number when the value parses, and 0.0 otherwise.
SafeFloatTotal ==
    coerced.fn = "_safe_float" =>
        /\ coerced.out.exc = "none"
        /\ raw.kind \in {"num", "numstr"} => coerced.out.val = Fl(raw.n)
        /\ raw.kind \in {"str", "none", "container"} => coerced.out.val = Fl(0)

----------------------------------------------------------------------------
(* C7-C10: the callouts of a returned scout report.                        *)

ScoutReturned == ScoutDone /\ result.exc = "none"

\* the callouts the rules appended for the returned report, before the sort
ReportFired ==
    FiredCallouts(result.report.home_overview, result.report.away_overview,
                  result.report.home_ff, result.report.away_ff,
                  result.report.home_shooting, result.report.away_shooting,
                  result.report.home_height, result.report.away_height,
                  result.report.home_team, result.report.away_team)

\* C7: the list returned by _generate_callouts has at most 8 elements, every
\* element has priority 1, 2 or 3, and priorities never decrease along the list.
CalloutListShape ==
    ScoutReturned =>
        LET c == result.report.callouts
        IN  /\ Len(c) <= 8
            /\ \A i \in 1..Len(c) : c[i].priority \in {1, 2, 3}
            /\ \A i \in 1..(Len(c) - 1) : c[i].priority <= c[i + 1].priority

\* all eleven callouts fired and eight were returned
CalloutListShapeWitness ==
    ScoutReturned /\ Len(ReportFired) = 11 /\ Len(result.report.callouts) = 8

OfPriority(s, p) == SelectSeq(s, LAMBDA x : x.priority = p)

\* C8: the returned list is exactly the first 8 of the fired callouts ordered by
\* priority with ties in rule-evaluation order; no omitted callout has a smaller
\* priority number than an included one, and every fired priority-1 callout is
\* returned.
CalloutsStablePrefix ==
    ScoutReturned =>
        LET fired == ReportFired
            ordered == OfPriority(fired, 1) \o OfPriority(fired, 2) \o OfPriority(fired, 3)
            c == result.report.callouts
            kept == {c[j] : j \in 1..Len(c)}
        IN  /\ c = SubSeq(ordered, 1, IF Len(ordered) < 8 THEN Len(ordered) ELSE 8)
            /\ \A i \in 1..Len(fired) :
                  fired[i] \notin kept =>
                      \A j \in 1..Len(c) : c[j].priority <= fired[i].priority
            /\ \A i \in 1..Len(fired) : fired[i].priority = 1 => fired[i] \in kept

\* nine callouts fired, the last one returned has priority 3 and one was cut
CalloutsStablePrefixWitness ==
    /\ ScoutReturned /\ Len(ReportFired) = 9
    /\ Len(result.report.callouts) = 8 /\ result.report.callouts[8].priority = 3
    /\ OfPriority(ReportFired, 3) # OfPriority(result.report.callouts, 3)

\* the labels of the callouts of a numbered rule of the callout battery
RuleLabels(r) ==
    CASE r = 2 -> {"Offensive Glass Edge", "Limit Offensive Rebounds"}
      [] r = 3 -> {"3PT Attack", "Contain 3PT Shooters"}
      [] r = 4 -> {"Ball Security", "Force Turnovers"}
      [] r = 7 -> {"Experience Edge"}
      [] r = 8 -> {"Ball Movement"}

\* the priorities with which rule r fires in favour of team in the list c
Favours(c, r, team) ==
    {c[i].priority : i \in {j \in 1..Len(c) :
        c[j].label[1] \in RuleLabels(r) /\ Len(c[j].label) = 2 /\ c[j].label[2] = team}}

\* _generate_callouts on the returned report's profiles with home and away swapped
SwappedCallouts ==
    GenerateCallouts(result.report.away_overview, result.report.home_overview,
                     result.report.away_ff, result.report.home_ff,
                     result.report.away_shooting, result.report.home_shooting,
                     result.report.away_height, result.report.home_height,
                     result.report.away_team, result.report.home_team)

Mirrored(rules) ==
    \A r \in rules : \A t \in {result.report.home_team, result.report.away_team} :
        Favours(result.report.callouts, r, t) = Favours(SwappedCallouts, r, t)

\* C9 as stated: under a swap of home and away, rules 2, 3, 4, 7 and 8 fire in
\* favour of the same team, with the same priority, as before the swap.
CalloutsMirrorUnderSwap == ScoutReturned => Mirrored({2, 3, 4, 7, 8})

\* C9 amended: under a swap of home and away, rules 2, 3 and 4 (rebounding,
\* three-point, turnovers) fire in favour of the same team, with the same
\* priority, as before the swap; rules 7 and 8 (experience, assist rate) are
\* evaluated for the home side only.
SymmetricRulesMirrorUnderSwap == ScoutReturned => Mirrored({2, 3, 4})

\* rule 2 fired for the away side only and rule 4 for both sides
SymmetricRulesWitness ==
    /\ ScoutReturned
    /\ Favours(result.report.callouts, 2, result.report.home_team) = {}
    /\ Favours(result.report.callouts, 2, result.report.away_team) = {1}
    /\ Favours(SwappedCallouts, 2, result.report.away_team) = {1}
    /\ Favours(result.report.callouts, 4, result.report.away_team) = {2}

\* C10 as stated: a priority-1 three-point callout for a side is in the scout
\* report iff that side's three-point% rank is <= 50 and the opponent's
\* defensive eFG% rank, from the opponent's four-factors record, is >= 200.
ThreePointRuleReadsOpponentDefence ==
    ScoutReturned =>
        LET rep == result.report
            Emitted(label) ==
                \E i \in 1..Len(rep.callouts) :
                    rep.callouts[i].label = label /\ rep.callouts[i].priority = 1
        IN  /\ Emitted(<<"3PT Attack", rep.home_team>>)
                  <=> (rep.home_shooting.rank_fg3 <= 50 /\ rep.away_ff.rank_defg >= 200)
            /\ Emitted(<<"Contain 3PT Shooters", rep.away_team>>)
                  <=> (rep.away_shooting.rank_fg3 <= 50 /\ rep.home_ff.rank_defg >= 200)

----------------------------------------------------------------------------
(* C11: the free-throw rule.                                               *)

\* a priority-2 free-throw callout naming team is in the returned list
FreeThrowCallout(team) ==
    \E i \in 1..Len(result.report.callouts) :
        /\ result.report.callouts[i].label = <<"Attack the Paint", team>>
        /\ result.report.callouts[i].priority = 2

\* the free-throw test on a four-factors record
GetsToTheLine(ff) == FGe(ff.ft_rate, Fl(40)) /\ ff.rank_ft <= 50

\* C11 as stated: for either side, home or away, a priority-2 free-throw
\* callout naming that side is emitted iff that side's free-throw rate is
\* >= 0.40 and its free-throw-rate rank is <= 50.
FreeThrowRuleEitherSide ==
    ScoutReturned =>
        /\ FreeThrowCallout(result.report.home_team) <=> GetsToTheLine(result.report.home_ff)
        /\ FreeThrowCallout(result.report.away_team) <=> GetsToTheLine(result.report.away_ff)

\* C11 amended: a priority-2 free-throw callout naming the home side is emitted
\* iff the home side's free-throw rate is >= 0.40 and its free-throw-rate rank
\* is <= 50; the rule is not evaluated for the away side, which never gets a
\* free-throw callout.
FreeThrowRuleHomeOnly ==
    ScoutReturned =>
        /\ FreeThrowCallout(result.report.home_team) <=> GetsToTheLine(result.report.home_ff)
        /\ \A i \in 1..Len(result.report.callouts) :
              result.report.callouts[i].label[1] = "Attack the Paint"
                  => result.report.callouts[i].label[2] = result.report.home_team

\* the home side's callout survives the cap while eleven callouts fired
FreeThrowRuleWitness ==
    /\ ScoutReturned /\ Len(ReportFired) = 11
    /\ FreeThrowCallout(result.report.home_team)
    /\ result.report.home_ff.ft_rate = Fl(40)

----------------------------------------------------------------------------
(* C12-C14: the four factors of a box score.                               *)

ComputedFF == coerced.fn = "_compute_ff"

\* the box-score totals of the call, as whole numbers
Total(key) == StatOf(raw, key).val.n \div 100
FGM == Total("fieldGoalsMade")
FGA == Total("fieldGoalsAttempted")
FG3M == Total("threePointFieldGoalsMade")
FTM == Total("freeThrowsMade")
FTA == Total("freeThrowsAttempted")
OREB == Total("offensiveRebounds")
DREB == Total("defensiveRebounds")
TOV == IF Total("turnovers") # 0 THEN Total("turnovers") ELSE Total("totalTurnovers")

\* FGA - OREB + TOV + 0.475*FTA, in units of 1/4000
ExactPossessions == 4000 * (FGA - OREB + TOV) + 1900 * FTA

Abs(x) == IF x < 0 THEN -x ELSE x

\* x is num/den rounded to the nearest integer (den # 0)
IsRounded(x, num, den) == 2 * Abs(x * den - num) <= Abs(den)

\* C12 as stated: for all non-negative integer totals, possessions is
\* FGA - OREB + TOV + 0.475*FTA, and it is 0 if and only if FGA = 0.
PossessionsZeroIffNoAttempts ==
    ComputedFF =>
        /\ coerced.out.exc = "none"
        /\ FGA # 0 => IsRounded(coerced.out.rec.possessions, ExactPossessions, 400)
        /\ coerced.out.rec.possessions = 0 <=> FGA = 0

\* C12 amended: possessions is FGA - OREB + TOV + 0.475*FTA (returned rounded to
\* one decimal) when FGA > 0 and 0 when FGA = 0; it is positive whenever
\* FGA > 0 and OREB < FGA, but can be 0 or negative with FGA > 0 otherwise.
PossessionsFormula ==
    ComputedFF =>
        /\ coerced.out.exc = "none"
        /\ FGA # 0 => IsRounded(coerced.out.rec.possessions, ExactPossessions, 400)
        /\ FGA = 0 => coerced.out.rec.possessions = 0
        /\ FGA > 0 /\ OREB < FGA => coerced.out.rec.possessions > 0

\* no attempts but turnovers and free throws: the guard decides
PossessionsWitness ==
    ComputedFF /\ FGA = 0 /\ TOV > 0 /\ FTA > 0 /\ coerced.out.rec.possessions = 0

\* C13 as stated: for totals with FGM <= FGA, 3PM <= FGM and FTM <= FTA, eFG%,
\* TO% and OR% lie in [0, 100] and FT rate and PPP are >= 0.
FourFactorRanges ==
    ComputedFF /\ FGM <= FGA /\ FG3M <= FGM /\ FTM <= FTA =>
        LET ff == coerced.out.rec
        IN  /\ ff.efg_pct \in 0..1000
            /\ ff.to_pct \in 0..1000
            /\ ff.or_pct \in 0..1000
            /\ ff.ft_rate >= 0
            /\ ff.ppp >= 0

\* C13 amended: for totals with FGM <= FGA, 3PM <= FGM and FTM <= FTA, eFG% lies
\* in [0, 150], OR% in [0, 100] and FT rate is >= 0; when moreover
\* OREB <= FGA, TO% lies in [0, 100] and PPP is >= 0.
FourFactorRangesAmended ==
    ComputedFF /\ FGM <= FGA /\ FG3M <= FGM /\ FTM <= FTA =>
        LET ff == coerced.out.rec
        IN  /\ ff.efg_pct \in 0..1500
            /\ ff.or_pct \in 0..1000
            /\ ff.ft_rate >= 0
            /\ OREB <= FGA => ff.to_pct \in 0..1000 /\ ff.ppp >= 0

\* every shot a made three: eFG% is 150
FourFactorRangesWitness ==
    /\ ComputedFF /\ FGA > 0 /\ FGM = FGA /\ FG3M = FGM /\ OREB <= FGA
    /\ coerced.out.rec.efg_pct = 1500

----------------------------------------------------------------------------
(* C15-C16: the post-game report's factor battle, result and margin.       *)

PostgameReturned == result.op = "postgame" /\ result.exc = "none"

\* the opening sentence of the report's narrative
LeadOf(report) == report.narrative[1]

\* C15: the tracked side wins eFG%, OR% and FT rate iff its value is strictly
\* greater than the opponent's and wins TO% iff its value is strictly lower, a
\* tie on any factor going to the opponent; the count of factors won stated
\* in the narrative is the number of ff_battle entries credited to the
\* tracked side and lies in 0..4.
FactorBattlePolarity ==
    PostgameReturned =>
        LET r == result.report
            Won(k) == r.ff_battle[k][1] = "SJU"
            Lost(k) == r.ff_battle[k][1] = "OPP"
        IN  /\ Won("eFG") <=> (r.sju_ff.efg_pct > r.opp_ff.efg_pct)
            /\ Won("OR") <=> (r.sju_ff.or_pct > r.opp_ff.or_pct)
            /\ Won("FTRate") <=> (r.sju_ff.ft_rate > r.opp_ff.ft_rate)
            /\ Won("TO") <=> (r.sju_ff.to_pct < r.opp_ff.to_pct)
            /\ DOMAIN r.ff_battle = {"eFG", "TO", "OR", "FTRate"}
            /\ \A k \in DOMAIN r.ff_battle : Won(k) \/ Lost(k)
            /\ LeadOf(r).sju_wins = Cardinality({k \in DOMAIN r.ff_battle : Won(k)})
            /\ LeadOf(r).sju_wins \in 0..4

\* equal eFG% credited to the opponent while the tracked side takes two factors
FactorBattleWitness ==
    /\ PostgameReturned
    /\ result.report.sju_ff.efg_pct = result.report.opp_ff.efg_pct
    /\ result.report.sju_ff.efg_pct > 0
    /\ result.report.ff_battle["eFG"][1] = "OPP"
    /\ LeadOf(result.report).sju_wins = 2

\* the header score of a side of the fetched box, 0 when the side or its
\* score is absent
HeaderScore(side) ==
    LET box == feed.boxscore.box
        cell == IF side \in DOMAIN box THEN box[side].score ELSE Num(0)
    IN  IF cell.kind = "numstr" THEN cell.n ELSE 0

\* the sides as the report assigns them
TrackedSide == SjuSide(feed.boxscore.box, req.sju_team_name)

\* C16: the lead sentence and the result field say the tracked side won iff
\* its score is strictly greater than the opponent's (equal scores are a
\* loss), and the stated margin is the absolute score difference.
ResultAndMargin ==
    PostgameReturned =>
        LET r == result.report
            sju == HeaderScore(TrackedSide)
            opp == HeaderScore(OppSide(TrackedSide))
        IN  /\ r.result = "W" <=> sju > opp
            /\ r.result \in {"W", "L"}
            /\ LeadOf(r).result = "won" <=> sju > opp
            /\ LeadOf(r).result \in {"won", "lost"}
            /\ LeadOf(r).margin = Fl(IF sju > opp THEN sju - opp ELSE opp - sju)

\* a 70-70 game is reported as a loss by a margin of 0
ResultAndMarginWitness ==
    /\ PostgameReturned
    /\ HeaderScore(TrackedSide) = H(70) /\ HeaderScore(OppSide(TrackedSide)) = H(70)
    /\ result.report.result = "L"
    /\ LeadOf(result.report).result = "lost"
    /\ LeadOf(result.report).margin = Fl(0)

----------------------------------------------------------------------------
(* C17-C19: the sentences of the post-game narrative.                      *)

Narrated == coerced.fn = "_build_postgame_narrative"

\* the sentences of the narrative, in order, and their kinds
Sentences == [i \in 1..((Len(coerced.out) + 1) \div 2) |-> coerced.out[2 * i - 1]]
Kinds == [i \in 1..Len(Sentences) |-> Sentences[i].kind]
Says(kind) == \E i \in 1..Len(Kinds) : Kinds[i] = kind

\* the place of a kind of sentence in the fixed order
Rank(kind) ==
    CASE kind = "lead" -> 0 [] kind = "shooting" -> 1 [] kind = "rebounding" -> 2
      [] kind = "turnovers" -> 3 [] kind = "ppp" -> 4

\* C17: the narrative is 2 to 5 sentences joined by single spaces, the lead
\* sentence first, the points-per-possession sentence last and always
\* present, and between them at most one sentence each for shooting,
\* rebounding and turnovers in that order; rebounding fires iff
\* |OR% difference| >= 8.0 and turnovers iff |TO% difference| >= 5.0.
NarrativeSentenceOrder ==
    Narrated =>
        /\ Len(coerced.out) % 2 = 1
        /\ \A i \in 1..Len(coerced.out) : i % 2 = 0 => coerced.out[i] = " "
        /\ Len(Sentences) \in 2..5
        /\ Kinds[1] = "lead" /\ Kinds[Len(Kinds)] = "ppp"
        /\ \A i \in 1..(Len(Kinds) - 1) : Rank(Kinds[i]) < Rank(Kinds[i + 1])
        /\ Says("rebounding") <=> Abs(raw.sju_ff.or_pct - raw.opp_ff.or_pct) >= 80
        /\ Says("turnovers") <=> Abs(raw.sju_ff.to_pct - raw.opp_ff.to_pct) >= 50

\* C18: the narrative contains the shooting sentence iff
\* |sju eFG% - opp eFG%| >= 5.0, and when present it names as leader the side
\* with the higher eFG% (55.0 against 42.0 fires and names the tracked side).
ShootingSentence ==
    Narrated =>
        /\ Says("shooting") <=> Abs(raw.sju_ff.efg_pct - raw.opp_ff.efg_pct) >= 50
        /\ \A i \in 1..Len(Sentences) :
              Kinds[i] = "shooting" =>
                  Sentences[i].leader = IF raw.sju_ff.efg_pct > raw.opp_ff.efg_pct
                                        THEN raw.sju_team ELSE raw.opp_team
        /\ raw.sju_ff.efg_pct = 550 /\ raw.opp_ff.efg_pct = 420 =>
              \E i \in 1..Len(Sentences) :
                  Kinds[i] = "shooting" /\ Sentences[i].leader = raw.sju_team

\* the closing sentence of the narrative
Closing == Sentences[Len(Sentences)]

\* C19 as stated: the final sentence states both PPP values and the signed
\* difference (tracked side minus opponent) and attributes the advantage to
\* the side whose PPP is higher.
PppSentenceSigned ==
    Narrated =>
        /\ Closing.kind = "ppp"
        /\ Closing.sju = raw.sju_ff.ppp /\ Closing.opp = raw.opp_ff.ppp
        /\ Closing.diff = raw.sju_ff.ppp - raw.opp_ff.ppp
        /\ Closing.label = "SJU advantage" <=> raw.sju_ff.ppp > raw.opp_ff.ppp
        /\ Closing.label = "opponent advantage" <=> raw.sju_ff.ppp < raw.opp_ff.ppp

\* C19 amended: the final sentence states both PPP values and the absolute
\* difference, labelled "SJU advantage" iff the tracked side's PPP is strictly
\* higher and "opponent advantage" otherwise (equal values included).
PppSentenceLabelled ==
    Narrated =>
        /\ Closing.kind = "ppp"
        /\ Closing.sju = raw.sju_ff.ppp /\ Closing.opp = raw.opp_ff.ppp
        /\ Closing.diff = Abs(raw.sju_ff.ppp - raw.opp_ff.ppp)
        /\ Closing.label = IF raw.sju_ff.ppp > raw.opp_ff.ppp
                           THEN "SJU advantage" ELSE "opponent advantage"

\* the opponent ahead by 0.200: the sentence prints 0.200 under its label
PppSentenceWitness ==
    /\ Narrated /\ raw.sju_ff.ppp = 900 /\ raw.opp_ff.ppp = 1100
    /\ Closing.label = "opponent advantage" /\ Closing.diff = 200

----------------------------------------------------------------------------
(* C20: minutes given as "M:S".                                            *)

Graded == coerced.fn = "_grade_players"

\* the text of a row's minutes cell and the place of its colon (0: none)
MinText(row) == IF row["MIN"].kind = "str" THEN row["MIN"].s ELSE <<>>
ColonAt(text) ==
    IF \E i \in 1..Len(text) : text[i] = ":"
    THEN CHOOSE i \in 1..Len(text) : text[i] = ":" /\ \A j \in 1..(i - 1) : text[j] # ":"
    ELSE 0

\* the minutes cell reads "M:S": digits, one colon, digits
IsClock(row) ==
    LET text == MinText(row)
        c == ColonAt(text)
    IN  /\ c > 1 /\ c < Len(text)
        /\ \A i \in 1..Len(text) : i # c => DigitOf(text[i]) >= 0

\* M, and points + 0.7*assists + 0.5*rebounds - turnovers in thousandths
WholeMinutes(row) == DigitsValue(SubSeq(MinText(row), 1, ColonAt(MinText(row)) - 1))
EffNumerator(row) == 10 * row["PTS"].n + 7 * row["AST"].n + 5 * row["REB"].n - 10 * row["TO"].n

\* C20: for a player whose MIN field is "M:S", exactly M whole minutes are used
\* (seconds discarded) both for the under-5-minutes filter and as the divisor
\* of (points + 0.7*assists + 0.5*rebounds - turnovers) / minutes * 40.
MinutesAreWholeMinutes ==
    Graded /\ "MIN" \in raw.cols /\ (\A i \in 1..Len(raw.rows) : IsClock(raw.rows[i])) =>
        LET kept == SelectSeq(raw.rows, LAMBDA row : WholeMinutes(row) >= 5)
            out == coerced.out.df.rows
        IN  /\ coerced.out.exc = "none"
            /\ Len(out) = Len(kept)
            /\ \A i \in 1..Len(out) :
                  /\ out[i].Player = kept[i]["name"]
                  /\ IsRounded(out[i].Eff40.n, 40 * EffNumerator(kept[i]),
                               H(WholeMinutes(kept[i])))

----------------------------------------------------------------------------
(* C21-C23: the graded player table.                                       *)

\* the minutes _grade_players parses from a row of the call's table
ParsedMinutes(row) == Minutes(row).val

\* the rows of the graded table
GradedRows == coerced.out.df.rows

\* C21: the output of _grade_players holds exactly the players whose parsed
\* minutes are >= 5, one row each and none for the others, in the relative
\* order of the input.
PlayerFilterAndOrder ==
    Graded =>
        LET kept == SelectSeq(raw.rows,
                        LAMBDA row : ~ParsedMinutes(row).nan /\ ParsedMinutes(row).n >= H(5))
        IN  /\ coerced.out.exc = "none"
            /\ [i \in 1..Len(GradedRows) |-> GradedRows[i].Player]
                   = [i \in 1..Len(kept) |-> kept[i]["name"]]

\* every input row was graded, so that output row i is input row i
AllGraded == Graded /\ Len(raw.rows) > 0 /\ Len(GradedRows) = Len(raw.rows)

\* eff/40 of an input row as the exact quotient num/den:
\* (points + 0.7*assists + 0.5*rebounds - turnovers) / minutes * 40, 0 without minutes
EffNum(row) ==
    IF ParsedMinutes(row).nan \/ ParsedMinutes(row).n <= 0 THEN 0 ELSE 4 * EffNumerator(row)
EffDen(row) ==
    IF ParsedMinutes(row).nan \/ ParsedMinutes(row).n <= 0 THEN 1 ELSE ParsedMinutes(row).n

\* C22: the letter grade is A+ iff eff/40 >= 28, A iff 22 <= eff/40 < 28,
\* B iff 16 <= eff/40 < 22, C iff 10 <= eff/40 < 16, D iff 5 <= eff/40 < 10 and
\* F iff eff/40 < 5; 30 minutes, 20 points, 7 assists, 5 rebounds and
\* 2 turnovers give eff/40 = 33.87 and grade A+.
GradeCutoffs ==
    AllGraded =>
        \A i \in 1..Len(raw.rows) :
            LET num == EffNum(raw.rows[i])
                den == EffDen(raw.rows[i])
                g == GradedRows[i].Grade
                Between(lo, hi) == lo * den <= num /\ num < hi * den
            IN  /\ g = "A+" <=> num >= 28 * den
                /\ g = "A" <=> Between(22, 28)
                /\ g = "B" <=> Between(16, 22)
                /\ g = "C" <=> Between(10, 16)
                /\ g = "D" <=> Between(5, 10)
                /\ g = "F" <=> num < 5 * den
                /\ raw.rows[i]["name"] = Str(<<"b">>) =>
                      /\ 3386 * den <= 100 * num /\ 100 * num <= 3387 * den
                      /\ GradedRows[i].Eff40.n = 339 /\ g = "A+"

\* the field-goal attempts of an input row, 0 when the table has no such column
AttemptsOf(row) == IF "FGA" \in DOMAIN row THEN row["FGA"].n ELSE 0

\* C23: the TS% cell is the placeholder iff field-goal attempts is 0; with
\* attempts > 0, a player with 0 points included, it shows
\* points / (2 * FGA) as a percentage.
TrueShootingPlaceholder ==
    AllGraded /\ (\A i \in 1..Len(raw.rows) :
                     "FGA" \in DOMAIN raw.rows[i] => raw.rows[i]["FGA"].kind = "numstr") =>
        \A i \in 1..Len(raw.rows) :
            LET fga == AttemptsOf(raw.rows[i])
                cell == GradedRows[i].TS
            IN  /\ cell.text = "dash" <=> fga = 0
                /\ fga > 0 => /\ cell.text = "pct"
                              /\ IsRounded(cell.n, raw.rows[i]["PTS"].n * 1000, 2 * fga)

----------------------------------------------------------------------------
(* C24: the prediction of the scout report.                                *)

\* the fixtures of the fetched feed (none when the fetch failed)
FedFixtures == feed["fanmatch"].df.rows

\* the fixture is the requested game: the requested home team as Home and the
\* requested away team as Visitor
IsRequestedGame(row) ==
    /\ PyIn(PyLower(req.home), PyLower(row["Home"].s))
    /\ PyIn(PyLower(req.away), PyLower(row["Visitor"].s))

\* C24: the fanmatch dict is non-empty only if the feed of the date holds a
\* fixture matching the requested game (requested home team as Home and
\* requested away team as Visitor), with the values of that fixture; with no
\* such fixture, or an empty feed, fanmatch is the empty dict.
PredictionOnlyForRequestedGame ==
    ScoutReturned =>
        LET fm == result.report.fanmatch
        IN  /\ DOMAIN fm # {} =>
                  \E i \in 1..Len(FedFixtures) :
                      /\ IsRequestedGame(FedFixtures[i])
                      /\ fm.home_pred = Fl(FedFixtures[i]["HomePred"].n)
            /\ (\A i \in 1..Len(FedFixtures) : ~IsRequestedGame(FedFixtures[i]))
                  => DOMAIN fm = {}


(* C25: find_team_id. With the teams dataset fetched, find_team_id raises    *)
(* ValueError exactly when no row has a TeamName that contains the requested *)
(* name, case-insensitively; otherwise it raises nothing and returns the     *)
(* TeamID of the first such row.                                              *)
TeamsFetched == result.op = "find_team_id" /\ feed.teams.exc = "none"
NameContains(row) ==
    /\ "TeamName" \in DOMAIN row
    /\ row["TeamName"].kind = "str"
    /\ PyIn(PyLower(req.name), PyLower(row["TeamName"].s))
Containing == {i \in 1..Len(feed.teams.df.rows) : NameContains(feed.teams.df.rows[i])}
FirstContaining == CHOOSE i \in Containing : \A j \in Containing : i <= j
FindTeamIdPartialMatch ==
    TeamsFetched =>
        /\ (result.exc = "ValueError") <=> (Containing = {})
        /\ Containing # {} =>
               /\ result.exc = "none"
               /\ Num(H(result.report.team_id)) = feed.teams.df.rows[FirstContaining]["TeamID"]


(* C26: missing box score. Whenever the game-event provider yields an empty  *)
(* box score, generate_postgame_report raises ValueError at the box check,   *)
(* before any four factors, grades or narrative are computed, and returns no *)
(* report.                                                                    *)
EmptyBoxYielded ==
    /\ result.op = "postgame"
    /\ feed.boxscore.exc = "none"
    /\ DOMAIN feed.boxscore.box = {}
MissingBoxScoreRaises ==
    EmptyBoxYielded => result = Raised("postgame", "ValueError", "box")
MissingBoxScoreSeen == EmptyBoxYielded /\ result.exc = "ValueError" /\ result.report = <<>>


(* C27: cache unchanged on fetch failure. A _ttl_get whose fetch raises     *)
(* makes exactly one fetch attempt and raises to its caller, and leaves the  *)
(* whole cache as it was: no entry appears for the key, an expired entry     *)
(* keeps its value and timestamp, the other keys keep theirs; the next       *)
(* _ttl_get of that key fetches again.                                       *)
FetchRaisedIn(l) == l.op = "get" /\ l.fetches > 0 /\ l.fetched = FetchFails
CacheUnchangedOnFetchFailure ==
    [][ /\ FetchRaisedIn(last') =>
               /\ last'.raised
               /\ last'.fetches = 1
               /\ cache' = cache
               /\ last'.prev = cache[last'.id]
        /\ (FetchRaisedIn(last) /\ last'.op = "get" /\ last'.id = last.id) =>
               last'.fetches = 1 ]_vars
ExpiredEntryKeptOnFailure ==
    /\ FetchRaisedIn(last)
    /\ last.raised
    /\ last.prev.present
    /\ cache[last.id] = last.prev
    /\ \E id \in CacheIds \ {last.id} : cache[id].present


(* C28: the ratings-provider cache is shared across client credentials. An  *)
(* entry stored by one KenPomClient is served to any other instance, also    *)
(* one built with a different API key, without a fetch, as long as it is     *)
(* younger than its ttl and no clear_cache came in between; clear_cache on   *)
(* any instance empties the ratings-provider map and leaves the game-event   *)
(* provider's entries as they were.                                          *)
KpCallDone == result.op = "kp_get" /\ last.op = "get" /\ last.id[1] = "kenpom"
ServedAcrossClients ==
    (/\ KpCallDone
     /\ last.prev.present
     /\ last.t - last.prev.ts < TtlOf(last.id)
     /\ result.stored_by[last.id].client # result.by.client)
        => /\ last.fetches = 0
           /\ ~last.raised
           /\ last.ret = last.prev.data
KpClearStep == last' # last /\ last'.op = "clear" /\ last'.id[1] = "kenpom"
CacheSharedAcrossCredentials ==
    /\ []ServedAcrossClients
    /\ [][KpClearStep =>
              /\ \A id \in CacheIds : id[1] = "kenpom" => cache'[id] = NoEntry
              /\ \A id \in CacheIds : id[1] = "espn" => cache'[id] = cache[id]]_vars
ServedUnderOtherKey ==
    /\ KpCallDone
    /\ last.fetches = 0
    /\ last.ret = last.prev.data
    /\ result.stored_by[last.id].client # result.by.client
    /\ result.stored_by[last.id].key # result.by.key
    /\ \E id \in CacheIds : id[1] = "espn" /\ cache[id].present


(* C29: efficiency-trend snapshots. _build_efficiency_trend asks for at most *)
(* 8 snapshots, on strictly increasing days from the season start to today   *)
(* inclusive; it returns no row when today is not after the season start;    *)
(* the rows are in increasing date order, one for each requested snapshot    *)
(* that was fetched non-empty and contains the team, the failed and empty    *)
(* ones being skipped.                                                       *)
TrendDone == result.op = "trend"
HasTeam(df) ==
    /\ "TeamName" \in df.cols
    /\ \E i \in 1..Len(df.rows) :
          PyLower(PyStr(df.rows[i]["TeamName"])) = PyLower(req.team)
Usable(day) ==
    /\ archive[day].exc = "none"
    /\ ~FrameEmpty(archive[day].df)
    /\ HasTeam(archive[day].df)
Increasing(days) == \A i \in 1..Len(days), j \in 1..Len(days) : i < j => days[i] < days[j]
EfficiencyTrendSnapshots ==
    TrendDone =>
        LET asked == result.report.requested
            rows == result.report.rows
            dates == [i \in 1..Len(rows) |-> rows[i].date]
        IN  /\ Len(asked) <= 8
            /\ Increasing(asked)
            /\ \A i \in 1..Len(asked) : 0 <= asked[i] /\ asked[i] <= req.delta
            /\ req.delta <= 0 => asked = <<>> /\ rows = <<>>
            /\ Increasing(dates)
            /\ {dates[i] : i \in 1..Len(dates)} =
                   {asked[i] : i \in {k \in 1..Len(asked) : Usable(asked[k])}}


(* C30: tracked team absent from the box score. When get_box_score returns  *)
(* a non-empty box and neither side's name contains the tracked name,        *)
(* generate_postgame_report raises nothing: the home side is the opponent,   *)
(* the tracked side is an empty record, so every tracked-side four-factor    *)
(* value is 0, the tracked score is 0, the player-grade table is empty and   *)
(* the result is "L".                                                        *)
TrackedAbsent ==
    /\ result.op = "postgame"
    /\ feed.boxscore.exc = "none"
    /\ DOMAIN feed.boxscore.box # {}
    /\ \A side \in DOMAIN feed.boxscore.box :
          ~PyIn(PyLower(req.sju_team_name), PyLower(feed.boxscore.box[side].name))
HomeIsOpponent(report) ==
    LET box == feed.boxscore.box
    IN  "home" \in DOMAIN box =>
            /\ report.opp_team = box["home"].name
            /\ report.opp_ff = ComputeFF(box["home"].team_stats).rec
TrackedTeamAbsent ==
    TrackedAbsent =>
        /\ result.exc = "none"
        /\ LET report == result.report
           IN  /\ HomeIsOpponent(report)
               /\ report.sju_team = req.sju_team_name
               /\ \A k \in DOMAIN report.sju_ff \ {"nans"} : report.sju_ff[k] = 0
               /\ report.sju_ff = ComputeFF(EmptyDict).rec
               /\ report.sju_score = 0
               /\ FrameEmpty(report.player_grades)
               /\ report.result = "L"
TrackedTeamAbsentSeen ==
    /\ TrackedAbsent
    /\ result.exc = "none"
    /\ "away" \in DOMAIN feed.boxscore.box
    /\ result.report.opp_score = 78
    /\ result.report.opp_ff.ppp > 0
    /\ result.report.result = "L"

====
